---- MODULE Spec2Model ----
EXTENDS Integers, Sequences, FiniteSets, TLC

(***************************************************************************)
(* Model of the authentication / authorization core of web-auth-rs:        *)
(*   core/futures.rs         SelectSeqOk / SelectSeqSome                   *)
(*   core/authentication.rs  compound handlers, service, service builder   *)
(*   core/authorization.rs   requirements, policy                          *)
(*   core/principal.rs       UserPrincipal, ClaimValue                     *)
(***************************************************************************)

\* ---------------------------------------------------------------- bounds
\* handlers registered through one builder
MaxHandlers == 3
\* Poll::Pending answers one operation may see before its futures complete
MaxPending == 1
\* the same for an operation called on a compound handler directly
MaxCompoundPending == 2
\* requirements added to one policy builder
MaxRequirements == 2
\* leaf requirements in one requirement composed by hand from tuples
MaxRequirementLeaves == 3

\* scheme names handed to the builder and to the lookups
Schemes == {"Bearer", "Cookie"}
\* scheme names under which handlers with sign-in/sign-out are registered
SignInOutSchemes == {"Cookie"}
\* role names used by policies
Roles == {"test", "admin"}

\* ---------------------------------------------------------------- values
None == [some |-> FALSE]
Some(v) == [some |-> TRUE, v |-> v]

\* the element of a one-element set
Only(S) == CHOOSE x \in S : TRUE

Pending == [ready |-> FALSE]
Ready(v) == [ready |-> TRUE, v |-> v]

\* core/principal.rs: ClaimPlainValue, ClaimValue
PlainString(s) == [tag |-> "String", s |-> s]
PlainInt(i) == [tag |-> "Int", i |-> i]
PlainFloat(f) == [tag |-> "Float", f |-> f]
PlainBool(b) == [tag |-> "Bool", b |-> b]
PlainValue(p) == [tag |-> "PlainValue", value |-> p]
Array(arr) == [tag |-> "Array", arr |-> arr]

\* ClaimPlainValue::as_str
as_str(pv) == IF pv.tag = "String" THEN Some(pv.s) ELSE None

\* mutant of ClaimValueIter: the index does not advance past the first element
ClaimValueIterFirstOnly(c) == IF c.tag = "PlainValue" THEN <<c.value>> ELSE <<c.arr[1]>>

\* ClaimValue::iter, by ClaimValueIter::next: the plain value once, or the
\* elements of the array in order
ClaimValueIter(c) == IF c.tag = "PlainValue" THEN <<c.value>> ELSE c.arr

\* UserPrincipal: the claims map, here the two claim types the model uses:
\* "sub" (which handler issued the principal) and "role" (absent or a value)
UserPrincipal(sub, role) == [claims |-> [sub |-> sub, role |-> role]]

\* UserPrincipal::claim(claim_types::ROLE)
claim_role(principal) == principal.claims.role

\* UserPrincipal::is_in_role
is_in_role(principal, role) ==
    LET c == claim_role(principal) IN
    IF c.some
    THEN \E k \in DOMAIN ClaimValueIter(c.v) :
            LET s == as_str(ClaimValueIter(c.v)[k]) IN
            IF s.some THEN s.v = role ELSE FALSE
    ELSE FALSE

\* the role claim in the principal handler `handler` returns for the one user
\* it knows: a plain "user", or the array ["user", "test"]
RoleClaimOf(handler) ==
    IF handler % 2 = 1
    THEN Some(PlainValue(PlainString("user")))
    ELSE Some(Array(<<PlainString("user"), PlainString("test")>>))

\* AuthenticationResult = Result<UserPrincipal, AuthenticationError>
Ok(principal) == [ok |-> TRUE, principal |-> principal]
Err(e) == [ok |-> FALSE, err |-> e]
AuthenticationError == {"NoResult", "Fail"}

\* what one handler's authenticate future may complete with: an error, or Ok
\* (with the handler's principal)
Outcomes == {Err(e) : e \in AuthenticationError} \cup {[ok |-> TRUE]}

\* AuthResponse produced by handler `id` for operation `op`
AuthResponse(id, op) == [by |-> id, op |-> op]

LookupOps == {"challenge", "forbid", "sign_in", "sign_out"}

\* ------------------------------------------------ compound handlers
\* AuthenticationHandlerWithScheme { scheme, handler }: handler is the
\* identity of the user's AuthenticationHandler
AuthenticationHandlerWithScheme(scheme, handler) ==
    [type |-> "AuthenticationHandlerWithScheme", scheme |-> scheme, handler |-> handler]

\* SignInOutAuthenticationHandlerWithScheme { scheme, handler }
SignInOutAuthenticationHandlerWithScheme(scheme, handler) ==
    [type |-> "SignInOutAuthenticationHandlerWithScheme", scheme |-> scheme, handler |-> handler]

\* the tuple (H1, H2) of two compound handlers
Pair(h0, h1) == [type |-> "Pair", h0 |-> h0, h1 |-> h1]

\* the builder's handler before any registration: ()
Unit == [type |-> "Unit"]

\* the leaves of a compound handler, left to right
RECURSIVE Leaves(_)
Leaves(h) ==
    IF h.type = "Unit" THEN <<>>
    ELSE IF h.type = "Pair" THEN Leaves(h.h0) \o Leaves(h.h1)
    ELSE <<h>>

\* ---------------------------------------------------------- futures
\* SelectSeqState
PollFirst == "PollFirst"
PollSecond == "PollSecond"

\* the future a handler's own method returned (H::AuthFut, H::ChallengeFut, ...)
HandlerFut(handler, op) == [type |-> "HandlerFut", handler |-> handler, op |-> op]

\* futures::future::OptionFuture, from Some(fut) or from None; leaf names the
\* leaf handler that made it (for the log only)
OptionFuture(inner, leaf) == [type |-> "OptionFuture", inner |-> inner, leaf |-> leaf]

\* std::future::ready(v); leaf names the leaf handler that made it
ReadyFut(v, leaf) == [type |-> "Ready", v |-> v, leaf |-> leaf]

\* select_seq_ok(fut1, fut2)
select_seq_ok(fut1, fut2) ==
    [type |-> "SelectSeqOk", fut1 |-> fut1, fut2 |-> fut2, state |-> PollFirst]

\* select_seq_some(fut1, fut2)
select_seq_some(fut1, fut2) ==
    [type |-> "SelectSeqSome", fut1 |-> fut1, fut2 |-> fut2, state |-> PollFirst]

\* events of the current operation, in program order: a call of a handler's
\* own method, and a poll of the future a leaf of the compound handler
\* returned, with the Poll value it gave
CallEv(handler, op) == <<"call", handler, op>>
PollEv(leaf, res) == <<"poll", leaf, res>>

\* what a handler's future returns when it is Ready: for authenticate the
\* outcome drawn for it, Ok with the handler's principal, for the other
\* operations the handler's response
HandlerOutput(fut, outcome) ==
    IF fut.op = "authenticate"
    THEN IF outcome.ok THEN Ok(UserPrincipal(fut.handler, RoleClaimOf(fut.handler))) ELSE outcome
    ELSE AuthResponse(fut.handler, fut.op)

\* mutant of SelectSeqOkCounts: the first future's result always counts
SelectSeqOkCountsAny(result) == TRUE

\* mutant of SelectSeqOkCounts: Err(Fail) counts as well, only NoResult
\* goes on to the second future
SelectSeqOkCountsFail(result) == result.ok \/ result.err = "Fail"

\* SelectSeqOk::poll, the test on the first future's result: result.is_ok()
SelectSeqOkCounts(result) == result.ok

\* mutant of SelectSeqSomeCounts: the first future's result always counts
SelectSeqSomeCountsAny(result) == TRUE

\* SelectSeqSome::poll, the test on the first future's result: result.is_some()
SelectSeqSomeCounts(result) == result.some

\* mutant of SelectSeqAdvances: the second future is polled also while the
\* first is Pending
SelectSeqAdvancesRacing(fut, res1) ==
    \/ ~res1.ready
    \/ IF fut.type = "SelectSeqOk" THEN ~res1.v.ok ELSE ~res1.v.some

\* the PollFirst arm of SelectSeqOk::poll and SelectSeqSome::poll: with the
\* first future's Poll value res1, whether the combinator sets PollSecond and
\* polls the second future (it does on Ready with a result that does not
\* count; on Pending and on a result that counts it returns res1)
SelectSeqAdvances(fut, res1) ==
    /\ res1.ready
    /\ IF fut.type = "SelectSeqOk"
       THEN ~SelectSeqOkCounts(res1.v)
       ELSE ~SelectSeqSomeCounts(res1.v)

\* Future::poll on a future of the model.  outs: the outcomes with which the
\* handler futures polled by this call complete, in polling order; a handler
\* future polled after outs is used up returns Poll::Pending.
\* Result: the future after the call, the Poll value, the number of outcomes
\* used, and the events.  (Only({e : r \in {Poll(..)}}) is e with r bound to
\* the value of the inner poll, which is then evaluated once.)
RECURSIVE Poll(_, _)

\* mutant of SelectSeqStateAfterFirst: the state is left as it is
SelectSeqStateAfterFirstStays == PollFirst

\* the PollFirst arm, first future Ready with a result that does not count:
\* *this.state = SelectSeqState::PollSecond
SelectSeqStateAfterFirst == PollSecond

\* mutant of SelectSeqSecondPoll: the call returns Pending and leaves the
\* second future for the next call
SelectSeqSecondPollDeferred(fut2, outs) ==
    [fut |-> fut2, res |-> Pending, used |-> 0, log |-> <<>>]

\* the PollFirst arm after the state is set: this.fut2.try_poll(cx), in the
\* same call of poll
SelectSeqSecondPoll(fut2, outs) == Poll(fut2, outs)

Poll(fut, outs) ==
    CASE fut.type = "HandlerFut" ->
            Only({ [fut |-> fut, res |-> res, used |-> IF res.ready THEN 1 ELSE 0,
                    log |-> IF fut.op = "authenticate"
                            THEN <<PollEv(fut.handler, res)>> ELSE <<>>] :
                   res \in {IF outs = <<>> THEN Pending
                            ELSE Ready(HandlerOutput(fut, Head(outs)))} })
      [] fut.type = "Ready" ->
            [fut |-> fut, res |-> Ready(fut.v), used |-> 0,
             log |-> <<PollEv(fut.leaf, Ready(fut.v))>>]
      [] fut.type = "OptionFuture" ->
            IF fut.inner.some
            THEN Only({ Only({ [fut |-> OptionFuture(Some(r.fut), fut.leaf), res |-> res,
                                used |-> r.used, log |-> <<PollEv(fut.leaf, res)>>] :
                               res \in {IF r.res.ready THEN Ready(Some(r.res.v))
                                        ELSE Pending} }) :
                        r \in {Poll(fut.inner.v, outs)} })
            ELSE [fut |-> fut, res |-> Ready(None), used |-> 0,
                  log |-> <<PollEv(fut.leaf, Ready(None))>>]
      [] OTHER ->
            IF fut.state = PollFirst
            THEN Only({
                 IF SelectSeqAdvances(fut, r1.res)
                 THEN Only({ [fut |-> [fut EXCEPT !.fut1 = r1.fut, !.fut2 = r2.fut,
                                                  !.state = SelectSeqStateAfterFirst],
                              res |-> r2.res, used |-> r1.used + r2.used,
                              log |-> r1.log \o r2.log] :
                             r2 \in {SelectSeqSecondPoll(fut.fut2,
                                         SubSeq(outs, r1.used + 1, Len(outs)))} })
                 ELSE [fut |-> [fut EXCEPT !.fut1 = r1.fut], res |-> r1.res,
                       used |-> r1.used, log |-> r1.log]
                 : r1 \in {Poll(fut.fut1, outs)} })
            ELSE Only({ [fut |-> [fut EXCEPT !.fut2 = r2.fut], res |-> r2.res,
                         used |-> r2.used, log |-> r2.log] :
                        r2 \in {Poll(fut.fut2, outs)} })

\* ------------------------------------------------- jwt.rs: JwtBearerHandler
\* the identity of the JwtBearerHandler among the handlers
JwtBearer == 0

\* StatusCode::UNAUTHORIZED, StatusCode::FORBIDDEN
UNAUTHORIZED == 401
FORBIDDEN == 403

\* 64-bit integers, written in three decimal limbs of nine digits each with
\* a sign: the value is (-1 if neg) * (l2 * 10^18 + l1 * 10^9 + l0)
Limb == 1000000000
Dec(neg, l2, l1, l0) == [neg |-> neg, l2 |-> l2, l1 |-> l1, l0 |-> l0]
Int64(i) == Dec(i < 0, 0, 0, IF i < 0 THEN 0 - i ELSE i)

\* i64::MAX, i64::MIN, u64::MAX, 2^64
I64_MAX == Dec(FALSE, 9, 223372036, 854775807)
I64_MIN == Dec(TRUE, 9, 223372036, 854775808)
U64_MAX == Dec(FALSE, 18, 446744073, 709551615)
TwoPow64 == Dec(FALSE, 18, 446744073, 709551616)
\* i64::MAX + 1
TwoPow63 == Dec(FALSE, 9, 223372036, 854775808)

\* |a| <= |b|
MagLe(a, b) ==
    \/ a.l2 < b.l2
    \/ a.l2 = b.l2 /\ a.l1 < b.l1
    \/ a.l2 = b.l2 /\ a.l1 = b.l1 /\ a.l0 <= b.l0

\* |a| - |b| for |b| <= |a|, limb by limb with borrow
MagSub(a, b) ==
    LET b0 == IF a.l0 < b.l0 THEN 1 ELSE 0
        b1 == IF a.l1 < b.l1 + b0 THEN 1 ELSE 0
    IN  [l2 |-> a.l2 - b.l2 - b1,
         l1 |-> a.l1 + b1 * Limb - b.l1 - b0,
         l0 |-> a.l0 + b0 * Limb - b.l0]

\* the value is one an i64 holds
FitsI64(n) == IF n.neg THEN MagLe(n, I64_MIN) ELSE MagLe(n, I64_MAX)

\* the decimal digits of l, width of them, zero-padded
RECURSIVE Digits(_, _)
Digits(l, width) ==
    IF width = 0 THEN "" ELSE Digits(l \div 10, width - 1) \o ToString(l % 10)

\* the decimal text of an integer
DecText(n) ==
    (IF n.neg THEN "-" ELSE "")
        \o (IF n.l2 > 0 THEN ToString(n.l2) \o Digits(n.l1, 9) \o Digits(n.l0, 9)
            ELSE IF n.l1 > 0 THEN ToString(n.l1) \o Digits(n.l0, 9)
            ELSE ToString(n.l0))

\* an f64 with one fractional digit: whole + tenths / 10
F64(whole, tenths) == [whole |-> whole, tenths |-> tenths]

\* serde_json::Value: a number is an integer (a u64 when it is not negative,
\* an i64 when it is) or an f64 and says which; an object is kept as its
\* compact text
JsonNull == [j |-> "Null"]
JsonBool(b) == [j |-> "Bool", b |-> b]
JsonNumber(n, is_f64) == [j |-> "Number", n |-> n, is_f64 |-> is_f64]
JsonString(s) == [j |-> "String", s |-> s]
JsonArray(arr) == [j |-> "Array", arr |-> arr]
JsonObject(text) == [j |-> "Object", text |-> text]

\* json_value.to_string(): the compact JSON text of the value
RECURSIVE to_string(_)
to_string(json_value) ==
    CASE json_value.j = "Null" -> "null"
      [] json_value.j = "Bool" -> IF json_value.b THEN "true" ELSE "false"
      [] json_value.j = "Number" ->
            IF json_value.is_f64
            THEN ToString(json_value.n.whole) \o "." \o ToString(json_value.n.tenths)
            ELSE DecText(json_value.n)
      [] json_value.j = "String" -> "\"" \o json_value.s \o "\""
      [] json_value.j = "Array" ->
            IF json_value.arr = <<>> THEN "[]"
            ELSE LET RECURSIVE Rest(_)
                     Rest(arr) == IF arr = <<>> THEN "]"
                                  ELSE "," \o to_string(Head(arr)) \o Rest(Tail(arr))
                 IN "[" \o to_string(Head(json_value.arr)) \o Rest(Tail(json_value.arr))
      [] OTHER -> json_value.text

\* mutant of as_i64: an integer above i64::MAX is cast, wrapping to n - 2^64
as_i64_wrapping(num) ==
    IF FitsI64(num.n) THEN Some(num.n)
    ELSE LET m == MagSub(TwoPow64, num.n) IN Some(Dec(TRUE, m.l2, m.l1, m.l0))

\* num.as_i64(): the integer if an i64 holds it
as_i64(num) == IF FitsI64(num.n) THEN Some(num.n) ELSE None

\* json_to_plain_value
json_to_plain_value(json_value) ==
    CASE json_value.j = "Bool" -> Some(PlainBool(json_value.b))
      [] json_value.j = "Number" ->
            IF json_value.is_f64 THEN Some(PlainFloat(json_value.n))
            ELSE LET i == as_i64(json_value) IN
                 IF i.some THEN Some(PlainInt(i.v)) ELSE None
      [] json_value.j = "String" -> Some(PlainString(json_value.s))
      [] json_value.j = "Null" -> None
      [] OTHER -> Some(PlainString(to_string(json_value)))

\* arr.into_iter().filter_map(json_to_plain_value).collect()
RECURSIVE FilterMapPlain(_)
FilterMapPlain(arr) ==
    IF arr = <<>> THEN <<>>
    ELSE LET p == json_to_plain_value(Head(arr)) IN
         (IF p.some THEN <<p.v>> ELSE <<>>) \o FilterMapPlain(Tail(arr))

\* json_arr_to_plain_values
json_arr_to_plain_values(arr) ==
    LET result == FilterMapPlain(arr) IN
    IF result = <<>> THEN None ELSE Some(result)

\* json_to_claim_value
json_to_claim_value(json_value) ==
    IF json_value.j = "Array"
    THEN IF json_value.arr # <<>>
         THEN LET r == json_arr_to_plain_values(json_value.arr) IN
              IF r.some THEN Some(Array(r.v)) ELSE None
         ELSE None
    ELSE LET r == json_to_plain_value(json_value) IN
         IF r.some THEN Some(PlainValue(r.v)) ELSE None

\* a token: whether jsonwebtoken::decode accepts it (signature, expiry,
\* issuer, subject), and the "role" entry of its claims, if any
Token(valid, role) == [valid |-> valid, claims |-> [role |-> role]]

\* an Authorization header value: to_str() gives its text or fails; the text
\* is a prefix of seven characters and the rest
HeaderValue(prefix, rest) == [to_str |-> Some([prefix |-> prefix, rest |-> rest])]
HeaderValueNotText == [to_str |-> None]

\* JwtBearerHandler::authenticate
JwtBearerAuthenticate(req) ==
    LET h == req.authorization
        bearer_token ==
            IF h.some /\ h.v.to_str.some /\ h.v.to_str.v.prefix = "Bearer "
            THEN Some(h.v.to_str.v.rest) ELSE None IN
    IF ~bearer_token.some THEN Err("NoResult")
    ELSE IF ~bearer_token.v.valid THEN Err("Fail")
    ELSE Ok(UserPrincipal(JwtBearer,
                          IF bearer_token.v.claims.role.some
                          THEN json_to_claim_value(bearer_token.v.claims.role.v)
                          ELSE None))

\* mutant of JwtBearerChallenge: 401 without the WWW-Authenticate header
JwtBearerChallengeWithoutHeader == [status_code |-> UNAUTHORIZED, headers |-> {}]

\* JwtBearerHandler::challenge
JwtBearerChallenge ==
    [status_code |-> UNAUTHORIZED, headers |-> {<<"www-authenticate", "Bearer">>}]

\* mutant of JwtBearerForbid: the challenge response
JwtBearerForbidAsChallenge == JwtBearerChallenge

\* JwtBearerHandler::forbid
JwtBearerForbid == [status_code |-> FORBIDDEN, headers |-> {}]

\* self.handler.authenticate(request): the future the handler returns
HandlerAuthenticate(handler, req) ==
    IF handler = JwtBearer THEN ReadyFut(JwtBearerAuthenticate(req), handler)
    ELSE HandlerFut(handler, "authenticate")

\* self.handler.challenge() / forbid() / sign_in(user) / sign_out()
HandlerRespond(handler, op) ==
    IF handler = JwtBearer
    THEN ReadyFut(IF op = "challenge" THEN JwtBearerChallenge ELSE JwtBearerForbid, handler)
    ELSE HandlerFut(handler, op)

\* ------------------------- CompoundAuthenticationHandler implementations
\* CompoundAuthenticationHandler::authenticate: the future and the calls made
\* to build it.  A leaf calls its handler's authenticate; a pair builds both
\* branch futures, first self.0's then self.1's, and hands them to select_seq_ok.
RECURSIVE CompoundAuthenticate(_, _)
CompoundAuthenticate(h, req) ==
    IF h.type = "Pair"
    THEN LET a == CompoundAuthenticate(h.h0, req)
             b == CompoundAuthenticate(h.h1, req) IN
         [fut |-> select_seq_ok(a.fut, b.fut), log |-> a.log \o b.log]
    ELSE [fut |-> HandlerAuthenticate(h.handler, req),
          log |-> <<CallEv(h.handler, "authenticate")>>]

\* mutant of LeafAnswers: sign_in and sign_out compare the scheme on every leaf
LeafAnswersIgnoresCapability(h, op, scheme) == scheme = h.scheme

\* whether a leaf answers a named lookup with Some: challenge and forbid
\* compare the scheme; sign_in and sign_out do so only on a
\* SignInOutAuthenticationHandlerWithScheme and are ready(None) otherwise
LeafAnswers(h, op, scheme) ==
    IF op \in {"challenge", "forbid"}
    THEN scheme = h.scheme
    ELSE h.type = "SignInOutAuthenticationHandlerWithScheme" /\ scheme = h.scheme

\* mutant of CompoundLookup: a pair probes its second branch first
RECURSIVE CompoundLookupSecondFirst(_, _, _)
CompoundLookupSecondFirst(h, op, scheme) ==
    IF h.type = "Pair"
    THEN LET a == CompoundLookupSecondFirst(h.h0, op, scheme)
             b == CompoundLookupSecondFirst(h.h1, op, scheme) IN
         [fut |-> select_seq_some(b.fut, a.fut), log |-> a.log \o b.log]
    ELSE IF LeafAnswers(h, op, scheme)
    THEN [fut |-> OptionFuture(Some(HandlerRespond(h.handler, op)), h.handler),
          log |-> <<CallEv(h.handler, op)>>]
    ELSE IF op \in {"sign_in", "sign_out"} /\ h.type = "AuthenticationHandlerWithScheme"
    THEN [fut |-> ReadyFut(None, h.handler), log |-> <<>>]
    ELSE [fut |-> OptionFuture(None, h.handler), log |-> <<>>]

\* CompoundAuthenticationHandler::challenge / forbid / sign_in / sign_out
RECURSIVE CompoundLookup(_, _, _)
CompoundLookup(h, op, scheme) ==
    IF h.type = "Pair"
    THEN LET a == CompoundLookup(h.h0, op, scheme)
             b == CompoundLookup(h.h1, op, scheme) IN
         [fut |-> select_seq_some(a.fut, b.fut), log |-> a.log \o b.log]
    ELSE IF LeafAnswers(h, op, scheme)
    THEN [fut |-> OptionFuture(Some(HandlerRespond(h.handler, op)), h.handler),
          log |-> <<CallEv(h.handler, op)>>]
    ELSE IF op \in {"sign_in", "sign_out"} /\ h.type = "AuthenticationHandlerWithScheme"
    THEN [fut |-> ReadyFut(None, h.handler), log |-> <<>>]
    ELSE [fut |-> OptionFuture(None, h.handler), log |-> <<>>]

\* --------------------------------------------------------- requirements
\* IsInRoleRequirement(role)
IsInRoleRequirement(role) == [type |-> "IsInRoleRequirement", role |-> role]

\* mutant of merge_bool_and: the conjunction comes out negated
merge_bool_nand(a, b) == ~(a /\ b)

\* futures::merge_bool_and over the joined pair of results
merge_bool_and(a, b) == a /\ b

\* mutant of RequirementAuthorize: () denies
RECURSIVE RequirementAuthorizeUnitDenies(_, _)
RequirementAuthorizeUnitDenies(req, principal) ==
    CASE req.type = "Unit" -> [value |-> FALSE, evals |-> <<req>>]
      [] req.type = "IsInRoleRequirement" ->
            [value |-> is_in_role(principal, req.role), evals |-> <<req>>]
      [] OTHER ->
            LET a == RequirementAuthorizeUnitDenies(req.h0, principal)
                b == RequirementAuthorizeUnitDenies(req.h1, principal) IN
            [value |-> merge_bool_and(a.value, b.value), evals |-> a.evals \o b.evals]

\* mutant of RequirementAuthorize: the pair stops at a false first result
RECURSIVE RequirementAuthorizeShortCircuit(_, _)
RequirementAuthorizeShortCircuit(req, principal) ==
    CASE req.type = "Unit" -> [value |-> TRUE, evals |-> <<req>>]
      [] req.type = "IsInRoleRequirement" ->
            [value |-> is_in_role(principal, req.role), evals |-> <<req>>]
      [] OTHER ->
            LET a == RequirementAuthorizeShortCircuit(req.h0, principal)
                b == RequirementAuthorizeShortCircuit(req.h1, principal) IN
            IF ~a.value THEN a
            ELSE [value |-> merge_bool_and(a.value, b.value), evals |-> a.evals \o b.evals]

\* AuthorizationRequirement::authorize for (), IsInRoleRequirement and
\* (R1, R2): the boolean, and the leaf requirements invoked, in order.  The
\* pair invokes self.0 and self.1 and joins them.
RECURSIVE RequirementAuthorize(_, _)
RequirementAuthorize(req, principal) ==
    CASE req.type = "Unit" -> [value |-> TRUE, evals |-> <<req>>]
      [] req.type = "IsInRoleRequirement" ->
            [value |-> is_in_role(principal, req.role), evals |-> <<req>>]
      [] OTHER ->
            LET a == RequirementAuthorize(req.h0, principal)
                b == RequirementAuthorize(req.h1, principal) IN
            [value |-> merge_bool_and(a.value, b.value), evals |-> a.evals \o b.evals]

\* mutant of RequirementPrincipalAfter: IsInRoleRequirement takes the role
\* claim out of the principal it was handed
RECURSIVE RequirementPrincipalAfterTakesRole(_, _)
RequirementPrincipalAfterTakesRole(req, principal) ==
    CASE req.type = "Unit" -> principal
      [] req.type = "IsInRoleRequirement" -> UserPrincipal(principal.claims.sub, None)
      [] OTHER -> RequirementPrincipalAfterTakesRole(req.h1,
                      RequirementPrincipalAfterTakesRole(req.h0, principal))

\* the principal behind the &mut UserPrincipal after requirement.authorize
\* returned: () ignores it, IsInRoleRequirement only calls is_in_role(&self),
\* and the pair hands it to self.0 and then to self.1
RECURSIVE RequirementPrincipalAfter(_, _)
RequirementPrincipalAfter(req, principal) ==
    CASE req.type = "Unit" -> principal
      [] req.type = "IsInRoleRequirement" -> principal
      [] OTHER -> RequirementPrincipalAfter(req.h1,
                      RequirementPrincipalAfter(req.h0, principal))

\* AuthorizationPolicyBuilder::new().require_role(roles[1])...require_role(roles[n]):
\* each step wraps the requirement so far: (self.requirement, IsInRoleRequirement)
RECURSIVE PolicyBuilderRequirement(_)
PolicyBuilderRequirement(roles) ==
    IF roles = <<>> THEN Unit
    ELSE Pair(PolicyBuilderRequirement(SubSeq(roles, 1, Len(roles) - 1)),
              IsInRoleRequirement(roles[Len(roles)]))

\* AuthorizationPolicyBuilder::build(auth_service)
AuthorizationPolicy(auth_service, roles) ==
    [auth_service |-> auth_service, requirement |-> PolicyBuilderRequirement(roles)]

\* the role lists given to policy builders
RoleLists == UNION {[1..n -> Roles] : n \in 0..MaxRequirements}

\* ------------------------------------------------------------- state
VARIABLES
    builder,    \* Some(AuthenticationServiceBuilder) until build() consumes it
    service,    \* Some(AuthenticationService) once build() returned one
    compound,   \* Some(compound handler) when one is used directly, without a
                \* service
    ext,        \* the request's extension slot for SuccessAuthenticationResult
    task,       \* the async operation in flight on the request, or Idle
    log,        \* handler calls and polls of the current operation, in order
    last,       \* the operation just completed and what it returned; none
                \* while an operation is in flight
    pendings,   \* Poll::Pending answers the operation in flight has seen
    request,    \* the request: its Authorization header
    pipeline,   \* where the request is in the middleware stack, when it goes
                \* through one
    peer        \* Some(the suspended task of a second request and what that
                \* request carries) when two requests are served concurrently

vars == <<builder, service, compound, ext, task, log, last, pendings, request, pipeline, peer>>

Idle == [op |-> "idle"]
NoLast == [op |-> "none", out |-> [t |-> "None"]]
Panic == [t |-> "Panic"]

\* a request without an Authorization header
NoAuthorization == [authorization |-> None]

\* no middleware stack around the service
NoPipeline == [pc |-> "none"]

\* AuthenticationServiceBuilder::new()
Init ==
    /\ builder = Some([handler |-> Unit, default_scheme |-> None])
    /\ service = None
    /\ compound = None
    /\ ext = None
    /\ task = Idle
    /\ log = <<>>
    /\ last = NoLast
    /\ pendings = 0
    /\ request = NoAuthorization
    /\ pipeline = NoPipeline
    /\ peer = None

\* ----------------------------------------------------------- builder
\* mutant of BuilderAdd: the new leaf goes in front
BuilderAddInFront(b, leaf) ==
    [handler |-> IF b.handler = Unit THEN leaf ELSE Pair(leaf, b.handler),
     default_scheme |-> b.default_scheme]

\* mutant of BuilderAdd: the builder returned has no default scheme
BuilderAddDropsDefault(b, leaf) ==
    [handler |-> IF b.handler = Unit THEN leaf ELSE Pair(b.handler, leaf),
     default_scheme |-> None]

\* add_authentication_handler / add_sign_in_out_authentication_handler: on the
\* builder of () the leaf becomes the handler, on a builder of a compound
\* handler the handler becomes (self.handler, leaf); default_scheme is kept
BuilderAdd(b, leaf) ==
    [handler |-> IF b.handler = Unit THEN leaf ELSE Pair(b.handler, leaf),
     default_scheme |-> b.default_scheme]

\* AuthenticationServiceBuilder::set_default_scheme
BuilderSetDefaultScheme(b, scheme) == [b EXCEPT !.default_scheme = Some(scheme)]

\* mutant of BuilderBuild: None also when no handler is registered under the
\* default scheme
BuilderBuildChecksDefault(b) ==
    IF ~b.default_scheme.some THEN None
    ELSE IF \A i \in DOMAIN Leaves(b.handler) :
                Leaves(b.handler)[i].scheme # b.default_scheme.v
         THEN None
         ELSE Some([default_scheme |-> b.default_scheme.v, handler |-> b.handler])

\* AuthenticationServiceBuilder::build
BuilderBuild(b) ==
    IF ~b.default_scheme.some THEN None
    ELSE Some([default_scheme |-> b.default_scheme.v, handler |-> b.handler])

AddAuthenticationHandler ==
    /\ builder.some
    /\ Len(Leaves(builder.v.handler)) < MaxHandlers
    /\ \E scheme \in Schemes :
          builder' = Some(BuilderAdd(builder.v,
              AuthenticationHandlerWithScheme(scheme, Len(Leaves(builder.v.handler)) + 1)))
    /\ UNCHANGED <<service, compound, ext, task, log, last, pendings, request, pipeline, peer>>

AddSignInOutAuthenticationHandler ==
    /\ builder.some
    /\ Len(Leaves(builder.v.handler)) < MaxHandlers
    /\ \E scheme \in SignInOutSchemes :
          builder' = Some(BuilderAdd(builder.v,
              SignInOutAuthenticationHandlerWithScheme(scheme, Len(Leaves(builder.v.handler)) + 1)))
    /\ UNCHANGED <<service, compound, ext, task, log, last, pendings, request, pipeline, peer>>

\* only the builder of a compound handler has set_default_scheme and build
SetDefaultScheme ==
    /\ builder.some
    /\ builder.v.handler # Unit
    /\ \E scheme \in Schemes : builder' = Some(BuilderSetDefaultScheme(builder.v, scheme))
    /\ UNCHANGED <<service, compound, ext, task, log, last, pendings, request, pipeline, peer>>

Build ==
    /\ builder.some
    /\ builder.v.handler # Unit
    /\ service' = BuilderBuild(builder.v)
    /\ builder' = None
    /\ UNCHANGED <<compound, ext, task, log, last, pendings, request, pipeline, peer>>

\* ----------------------------------------------- AuthenticationService
\* mutant of ResolveScheme: the default scheme whatever was passed
ResolveSchemeDefaultOnly(arg, default_scheme) == default_scheme

\* scheme.unwrap_or(&self.default_scheme)
ResolveScheme(arg, default_scheme) == IF arg.some THEN arg.v ELSE default_scheme

\* mutant of UnwrapOrPanic: an empty response instead of the panic
UnwrapOrEmptyResponse(found) ==
    [t |-> "Response", resp |-> IF found.some THEN found.v ELSE AuthResponse(0, "none")]

\* .unwrap_or_else(|| panic!(...)) on the compound handler's Option
UnwrapOrPanic(found) ==
    IF found.some THEN [t |-> "Response", resp |-> found.v] ELSE Panic

\* mutant of AttachResult: a failure clears the slot
AttachResultOrClear(extensions, result) ==
    IF result.ok THEN Some([principal |-> result.principal]) ELSE None

\* mutant of AttachResult: a result already in the slot is kept
AttachResultKeepsEarlier(extensions, result) ==
    IF result.ok /\ ~extensions.some THEN Some([principal |-> result.principal])
    ELSE extensions

\* AuthenticationService::authenticate after the await: insert a
\* SuccessAuthenticationResult on Ok, nothing otherwise
AttachResult(extensions, result) ==
    IF result.ok THEN Some([principal |-> result.principal]) ELSE extensions

\* mutant of ExtensionsWhilePending: a result is put in place before the await
ExtensionsWhilePendingPartial(extensions) ==
    Some([principal |-> UserPrincipal(0, None)])

\* AuthenticationService::authenticate while its await has not returned: the
\* request's extensions have not been touched
ExtensionsWhilePending(extensions) == extensions

\* the task of AuthenticationService::authenticate at its await
AuthenticateTask(svc, extensions) ==
    LET c == CompoundAuthenticate(svc.handler, request) IN
    [task |-> [op |-> "authenticate", inner |-> "authenticate", arg |-> None,
               scheme |-> "", fut |-> c.fut, ext0 |-> extensions, roles |-> <<>>,
               evals |-> <<>>],
     log |-> c.log]

\* the task of AuthenticationService::challenge / forbid / sign_in / sign_out
\* at its await; top is the operation the caller started (the lookup itself,
\* or the policy's authorize)
LookupTask(svc, top, op, arg, extensions, roles, evals) ==
    LET scheme == ResolveScheme(arg, svc.default_scheme)
        c == CompoundLookup(svc.handler, op, scheme) IN
    [task |-> [op |-> top, inner |-> op, arg |-> arg, scheme |-> scheme,
               fut |-> c.fut, ext0 |-> extensions, roles |-> roles, evals |-> evals],
     log |-> c.log]

\* ------------------------------------------------- AuthorizationPolicy
\* mutant of AuthorizeDecision: a request without a result is forbidden
AuthorizeDecisionForbidsUnauthenticated(policy, extensions) ==
    IF ~extensions.some
    THEN [next |-> "forbid", evals |-> <<>>]
    ELSE LET r == RequirementAuthorize(policy.requirement, extensions.v.principal) IN
         IF ~r.value THEN [next |-> "forbid", evals |-> r.evals]
         ELSE [next |-> "ok", evals |-> r.evals]

\* mutant of AuthorizeDecision: a failed requirement is answered by challenge
AuthorizeDecisionChallengesFailed(policy, extensions) ==
    IF ~extensions.some
    THEN [next |-> "challenge", evals |-> <<>>]
    ELSE LET r == RequirementAuthorize(policy.requirement, extensions.v.principal) IN
         IF ~r.value THEN [next |-> "challenge", evals |-> r.evals]
         ELSE [next |-> "ok", evals |-> r.evals]

\* mutant of AuthorizeDecision: the policy decides on the result another
\* request carries when there is one
AuthorizeDecisionSeesPeer(policy, extensions) ==
    LET seen == IF peer.some /\ peer.v.ext.some THEN peer.v.ext ELSE extensions IN
    IF ~seen.some
    THEN [next |-> "challenge", evals |-> <<>>]
    ELSE LET r == RequirementAuthorize(policy.requirement, seen.v.principal) IN
         IF ~r.value THEN [next |-> "forbid", evals |-> r.evals]
         ELSE [next |-> "ok", evals |-> r.evals]

\* AuthorizationPolicy::authorize up to its first await: challenge when the
\* request carries no SuccessAuthenticationResult, else the requirement is
\* evaluated on the attached principal and a false result leads to forbid
AuthorizeDecision(policy, extensions) ==
    IF ~extensions.some
    THEN [next |-> "challenge", evals |-> <<>>]
    ELSE LET r == RequirementAuthorize(policy.requirement, extensions.v.principal) IN
         IF ~r.value THEN [next |-> "forbid", evals |-> r.evals]
         ELSE [next |-> "ok", evals |-> r.evals]

\* the request's extensions once AuthorizationPolicy::authorize is past the
\* requirement: extensions.get_mut::<SuccessAuthenticationResult>() hands
\* the attached principal to the requirement in place; without a result
\* nothing is touched
AuthorizeExtensions(policy, extensions) ==
    IF ~extensions.some THEN extensions
    ELSE Some([principal |->
                  RequirementPrincipalAfter(policy.requirement, extensions.v.principal)])

\* Err(self.auth_service.challenge(None).await) / Err(...forbid(None).await)
AuthorizeErr(u) == IF u.t = "Panic" THEN Panic ELSE [t |-> "Err", resp |-> u.resp]

\* --------------------------------------------------- running a task
\* what the operation returns to its caller once its compound future is Ready
TaskOutput(t, v) ==
    CASE t.op = "authenticate" -> [t |-> "Unit"]
      [] t.op = "compound" -> [t |-> "Returned"]
      [] t.op = "authorize" -> AuthorizeErr(UnwrapOrPanic(v))
      [] OTHER -> UnwrapOrPanic(v)

\* the record of a completed operation
Completed(t, v, out) ==
    [op |-> t.op, inner |-> t.inner, arg |-> t.arg, scheme |-> t.scheme,
     ext0 |-> t.ext0, roles |-> t.roles, evals |-> t.evals, compound |-> v,
     out |-> out]

\* the request's extensions while the task t awaits the service: authorize
\* has run its requirement on them before it awaits challenge or forbid;
\* the lookups of the service do not have the request
TaskExtensions(t, extensions) ==
    IF t.op = "authorize"
    THEN AuthorizeExtensions(AuthorizationPolicy(service.v, t.roles), extensions)
    ELSE extensions

\* how often the futures of one operation return Pending in the model
PendingCap == IF compound.some THEN MaxCompoundPending ELSE MaxPending

\* one poll of the task t: its compound future is polled with outs; Pending
\* leaves the task in flight, Ready completes the operation
Drive(t, lg, seen, outs) ==
    \E r \in {Poll(t.fut, outs)} :
    /\ r.used = Len(outs)
    /\ ~r.res.ready => seen < PendingCap
    /\ log' = lg \o r.log
    /\ IF ~r.res.ready
       THEN /\ task' = [t EXCEPT !.fut = r.fut]
            /\ pendings' = seen + 1
            /\ last' = NoLast
            /\ ext' = ExtensionsWhilePending(TaskExtensions(t, ext))
       ELSE /\ task' = Idle
            /\ pendings' = 0
            /\ ext' = IF t.op = "authenticate" THEN AttachResult(ext, r.res.v)
                      ELSE TaskExtensions(t, ext)
            /\ last' = Completed(t, r.res.v, TaskOutput(t, r.res.v))

\* the outcome lists one poll may draw: handler futures that fail, then at
\* most one more outcome of any kind
ErrOutcomes == {o \in Outcomes : ~o.ok}
AuthOuts ==
    UNION {{e \o l : e \in [1..n -> ErrOutcomes], l \in {<<>>} \cup {<<o>> : o \in Outcomes}} :
           n \in 0..MaxHandlers}
LookupOuts == {<<>>, <<Err("NoResult")>>}

CanStart ==
    /\ service.some
    /\ task = Idle
    /\ last = NoLast

\* AuthenticationService::authenticate(request), first poll
ServiceAuthenticate ==
    /\ CanStart
    /\ \E a \in {AuthenticateTask(service.v, ext)}, outs \in AuthOuts :
          Drive(a.task, a.log, 0, outs)
    /\ UNCHANGED <<builder, service, compound, request, pipeline, peer>>

ServiceLookup(op) ==
    /\ CanStart
    /\ \E arg \in {None} \cup {Some(s) : s \in Schemes} :
          \E a \in {LookupTask(service.v, op, op, arg, ext, <<>>, <<>>)}, outs \in LookupOuts :
             Drive(a.task, a.log, 0, outs)
    /\ UNCHANGED <<builder, service, compound, request, pipeline, peer>>

\* AuthenticationService::challenge(scheme), first poll
ServiceChallenge == ServiceLookup("challenge")

\* AuthenticationService::forbid(scheme), first poll
ServiceForbid == ServiceLookup("forbid")

\* AuthenticationService::sign_in(scheme, user), first poll
ServiceSignIn == ServiceLookup("sign_in")

\* AuthenticationService::sign_out(scheme), first poll
ServiceSignOut == ServiceLookup("sign_out")

\* AuthorizationPolicy::authorize(request) up to its return or the first
\* Pending, for the policy built over the service with the roles of a role list
PolicyAuthorizeRun(roles) ==
    \E policy \in {AuthorizationPolicy(service.v, roles)} :
    \E d \in {AuthorizeDecision(policy, ext)} :
    IF d.next = "ok"
    THEN /\ task' = Idle
         /\ log' = <<>>
         /\ pendings' = 0
         /\ last' = [op |-> "authorize", inner |-> "none", arg |-> None,
                     scheme |-> "", ext0 |-> ext, roles |-> roles,
                     evals |-> d.evals,
                     compound |-> None, out |-> [t |-> "Ok"]]
         /\ ext' = AuthorizeExtensions(policy, ext)
    ELSE \E a \in {LookupTask(policy.auth_service, "authorize", d.next, None,
                                 ext, roles, d.evals)}, outs \in LookupOuts :
            Drive(a.task, a.log, 0, outs)

\* AuthorizationPolicy::authorize(request) called by user code
PolicyAuthorize ==
    /\ CanStart
    /\ \E roles \in RoleLists : PolicyAuthorizeRun(roles)
    /\ UNCHANGED <<builder, service, compound, request, pipeline, peer>>

\* the task is polled again only when woken, and the waker the executor
\* passed in cx is held by the last future polled, which returned Pending
WakerRegistered(lg) ==
    /\ lg # <<>>
    /\ lg[Len(lg)][1] = "poll"
    /\ ~lg[Len(lg)][3].ready

\* a later poll of the operation in flight
PollTask ==
    /\ task # Idle
    /\ WakerRegistered(log)
    /\ \E outs \in (IF task.inner = "authenticate" THEN AuthOuts ELSE LookupOuts) :
          Drive(task, log, pendings, outs)
    /\ UNCHANGED <<builder, service, compound, request, pipeline, peer>>

\* the caller of the completed operation has its result and goes on with the
\* request; a panic unwinds the caller, which does not go on
Proceed ==
    /\ task = Idle
    /\ last # NoLast
    /\ last.out.t # "Panic"
    /\ last' = NoLast
    /\ log' = <<>>
    /\ UNCHANGED <<builder, service, compound, ext, task, pendings, request, pipeline, peer>>

Next ==
    \/ AddAuthenticationHandler
    \/ AddSignInOutAuthenticationHandler
    \/ SetDefaultScheme
    \/ Build
    \/ ServiceAuthenticate
    \/ ServiceChallenge
    \/ ServiceForbid
    \/ ServiceSignIn
    \/ ServiceSignOut
    \/ PolicyAuthorize
    \/ PollTask
    \/ Proceed

Spec == Init /\ [][Next]_vars

\* ------------------------------------------- compound handlers, directly
\* the leaf handlers user code can build for the handler with identity id
LeafHandlers(id) ==
    {AuthenticationHandlerWithScheme(s, id) : s \in Schemes}
        \cup {SignInOutAuthenticationHandlerWithScheme(s, id) : s \in SignInOutSchemes}

\* the compound handlers over the handlers lo..hi, in every nesting of
\* tuples (H1, H2)
RECURSIVE CompoundHandlers(_, _)
CompoundHandlers(lo, hi) ==
    IF lo = hi THEN LeafHandlers(lo)
    ELSE UNION {{Pair(a, b) : a \in CompoundHandlers(lo, k), b \in CompoundHandlers(k + 1, hi)} :
                k \in lo..(hi - 1)}

\* a compound handler of up to MaxHandlers handlers, built by hand
InitCompound ==
    /\ builder = None
    /\ service = None
    /\ compound \in {Some(h) : h \in UNION {CompoundHandlers(1, n) : n \in 1..MaxHandlers}}
    /\ ext = None
    /\ task = Idle
    /\ log = <<>>
    /\ last = NoLast
    /\ pendings = 0
    /\ request = NoAuthorization
    /\ pipeline = NoPipeline
    /\ peer = None

\* CompoundAuthenticationHandler::authenticate(request) on the compound
\* handler, and the first poll of its future
CompoundAuthenticateCall ==
    /\ compound.some
    /\ task = Idle
    /\ last = NoLast
    /\ \E c \in {CompoundAuthenticate(compound.v, request)}, outs \in AuthOuts :
          Drive([op |-> "compound", inner |-> "authenticate", arg |-> None, scheme |-> "",
                 fut |-> c.fut, ext0 |-> ext, roles |-> <<>>, evals |-> <<>>],
                c.log, 0, outs)
    /\ UNCHANGED <<builder, service, compound, request, pipeline, peer>>

\* CompoundAuthenticationHandler::challenge / forbid / sign_in / sign_out
\* (scheme) on the compound handler, and the first poll of its future
CompoundLookupCall ==
    /\ compound.some
    /\ task = Idle
    /\ last = NoLast
    /\ \E op \in LookupOps, scheme \in Schemes :
       \E c \in {CompoundLookup(compound.v, op, scheme)}, outs \in LookupOuts :
          Drive([op |-> "compound", inner |-> op, arg |-> Some(scheme), scheme |-> scheme,
                 fut |-> c.fut, ext0 |-> ext, roles |-> <<>>, evals |-> <<>>],
                c.log, 0, outs)
    /\ UNCHANGED <<builder, service, compound, request, pipeline, peer>>

NextCompound ==
    \/ CompoundAuthenticateCall
    \/ CompoundLookupCall
    \/ PollTask
    \/ Proceed

SpecCompound == InitCompound /\ [][NextCompound]_vars

\* compound handlers of every nesting whose handlers are registered under
\* "Bearer" and, with the sign-in/sign-out capability, "Cookie" in turn
InitCompoundLive ==
    /\ InitCompound
    /\ \A i \in DOMAIN Leaves(compound.v) :
          Leaves(compound.v)[i] =
              IF i % 2 = 1 THEN AuthenticationHandlerWithScheme("Bearer", i)
              ELSE SignInOutAuthenticationHandlerWithScheme("Cookie", i)

\* the compound handler under an executor that polls a woken task again; the
\* handler futures of one operation return Pending at most
\* MaxCompoundPending times
SpecCompoundLive == InitCompoundLive /\ [][NextCompound]_vars /\ WF_vars(PollTask)

\* ----------------------------------------------- requirements, directly
\* the leaf requirements: () and IsInRoleRequirement(role)
LeafRequirements == {Unit} \cup {IsInRoleRequirement(r) : r \in Roles}

\* the requirements of n leaves, in every nesting of tuples (R1, R2)
RECURSIVE RequirementsOf(_)
RequirementsOf(n) ==
    IF n = 1 THEN LeafRequirements
    ELSE UNION {{Pair(a, b) : a \in RequirementsOf(k), b \in RequirementsOf(n - k)} :
                k \in 1..(n - 1)}

Requirements == UNION {RequirementsOf(n) : n \in 1..MaxRequirementLeaves}

\* the values a principal's "role" claim takes: absent, a plain string (a
\* role name, one that differs in case, another name), a plain integer, an
\* array of strings, an array with a non-string element
RoleClaimValues ==
    {None}
        \cup {Some(PlainValue(PlainString(s))) : s \in {"test", "Test", "admin", "user"}}
        \cup {Some(PlainValue(PlainInt(Int64(1))))}
        \cup {Some(Array(<<PlainString("admin"), PlainString("test")>>)),
              Some(Array(<<PlainString("user"), PlainString("test")>>)),
              Some(Array(<<PlainInt(Int64(1)), PlainString("admin")>>)),
              Some(Array(<<PlainInt(Int64(1))>>))}

Principals == {UserPrincipal(0, c) : c \in RoleClaimValues}

\* a service of one handler, as AuthenticationServiceBuilder::new()
\* .add_authentication_handler("Bearer", h).set_default_scheme("Bearer").build()
\* returns it; requirements and principals are built by hand
InitRequirement ==
    /\ builder = None
    /\ service = BuilderBuild(BuilderSetDefaultScheme(
                     BuilderAdd([handler |-> Unit, default_scheme |-> None],
                                AuthenticationHandlerWithScheme("Bearer", 1)),
                     "Bearer"))
    /\ compound = None
    /\ ext = None
    /\ task = Idle
    /\ log = <<>>
    /\ last = NoLast
    /\ pendings = 0
    /\ request = NoAuthorization
    /\ pipeline = NoPipeline
    /\ peer = None

\* requirement.authorize(&mut principal).await on a requirement and a
\* principal built by hand
RequirementAuthorizeCall ==
    /\ task = Idle
    /\ last = NoLast
    /\ \E req \in Requirements, principal \in Principals :
       \E r \in {RequirementAuthorize(req, principal)} :
          last' = [op |-> "requirement", requirement |-> req, principal |-> principal,
                   evals |-> r.evals, out |-> [t |-> "Bool", value |-> r.value]]
    /\ log' = <<>>
    /\ UNCHANGED <<builder, service, compound, ext, task, pendings, request, pipeline, peer>>

\* the vectors user code hands to ClaimValue::Array: Vec::new(), vec![v],
\* vec![v, w]
PlainVecs ==
    LET plain == {PlainString("test"), PlainInt(Int64(1))} IN
    {<<>>} \cup {<<v>> : v \in plain} \cup {<<v, w>> : v \in plain, w \in plain}

\* ClaimValue::Array(vec) written by user code: the variant of the public
\* enum takes any Vec<ClaimPlainValue>
ClaimValueArrayNew ==
    /\ task = Idle
    /\ last = NoLast
    /\ \E vec \in PlainVecs :
          last' = [op |-> "claim_value",
                   out |-> [t |-> "ClaimValue", value |-> Array(vec),
                            iter |-> ClaimValueIter(Array(vec))]]
    /\ log' = <<>>
    /\ UNCHANGED <<builder, service, compound, ext, task, pendings, request, pipeline, peer>>

NextRequirement ==
    \/ RequirementAuthorizeCall
    \/ ClaimValueArrayNew
    \/ ServiceAuthenticate
    \/ PolicyAuthorize
    \/ PollTask
    \/ Proceed

SpecRequirement == InitRequirement /\ [][NextRequirement]_vars

\* ----------------------------------------- a service of a JwtBearerHandler
\* the "role" entries of the tokens' claims
RoleJsons ==
    {None}
        \cup {Some(JsonString(r)) : r \in {"user", "test"}}
        \cup {Some(JsonArray(<<JsonString("user"), JsonString("test")>>)),
              Some(JsonArray(<<JsonString("user")>>)),
              Some(JsonArray(<<JsonNull, JsonString("test")>>)),
              Some(JsonArray(<<JsonNull>>)),
              Some(JsonArray(<<>>)),
              Some(JsonNull),
              Some(JsonNumber(Int64(1), FALSE)),
              Some(JsonNumber(I64_MAX, FALSE)),
              Some(JsonNumber(TwoPow63, FALSE)),
              Some(JsonNumber(F64(1, 5), TRUE)),
              Some(JsonArray(<<JsonNumber(U64_MAX, FALSE), JsonString("test")>>)),
              Some(JsonArray(<<JsonNumber(TwoPow63, FALSE), JsonNull>>)),
              Some(JsonArray(<<JsonArray(<<JsonString("test"), JsonNumber(I64_MIN, FALSE)>>),
                               JsonObject("{\"a\":null}")>>)),
              Some(JsonBool(TRUE)),
              Some(JsonObject("{}"))}

Tokens == {Token(valid, role) : valid \in BOOLEAN, role \in RoleJsons}

\* the requests: without the header, with a header that is not text, with
\* another authentication scheme, with a bearer token
Requests ==
    {NoAuthorization, [authorization |-> Some(HeaderValueNotText)]}
        \cup {[authorization |-> Some(HeaderValue("Basic  ", Token(TRUE, None)))]}
        \cup {[authorization |-> Some(HeaderValue("Bearer ", t))] : t \in Tokens}

\* the service of the examples: AuthenticationServiceBuilder::new()
\* .add_authentication_handler("Bearer", jwt_handler)
\* .set_default_scheme("Bearer").build(), and the same with a second handler
\* added after the JwtBearerHandler under "Cookie"; a first request
JwtServices ==
    LET jwt == BuilderAdd([handler |-> Unit, default_scheme |-> None],
                          AuthenticationHandlerWithScheme("Bearer", JwtBearer)) IN
    {BuilderBuild(BuilderSetDefaultScheme(jwt, "Bearer")),
     BuilderBuild(BuilderSetDefaultScheme(
         BuilderAdd(jwt, SignInOutAuthenticationHandlerWithScheme("Cookie", 2)),
         "Bearer"))}

InitJwt ==
    /\ builder = None
    /\ service \in JwtServices
    /\ compound = None
    /\ ext = None
    /\ task = Idle
    /\ log = <<>>
    /\ last = NoLast
    /\ pendings = 0
    /\ request \in Requests
    /\ pipeline = NoPipeline
    /\ peer = None

\* the next request arrives, with fresh extensions
NextRequest ==
    /\ task = Idle
    /\ last = NoLast
    /\ ext # None
    /\ request' \in Requests
    /\ ext' = None
    /\ UNCHANGED <<builder, service, compound, task, log, last, pendings, pipeline, peer>>

NextJwt ==
    \/ ServiceAuthenticate
    \/ ServiceChallenge
    \/ ServiceForbid
    \/ PolicyAuthorize
    \/ PollTask
    \/ Proceed
    \/ NextRequest

SpecJwt == InitJwt /\ [][NextJwt]_vars

\* ------------------------------------------------- the middleware stack
\* framework/tower_auth.rs, framework/tower.rs, framework/actix_auth.rs: the
\* Authentication middleware around the Authorize middleware around the
\* downstream handler.  pc: where the request is;
\*   "start"         Authentication::call got the request
\*   "authenticate"  it awaits service.authenticate(&mut req)
\*   "inner"         it called inner.call(req): Authorize::call got the request
\*   "authorize"     Authorize::call awaits policy.authorize(&mut req)
\*   "downstream"    Authorize::call called inner.call(req): the handler runs
\*   "response"      Authorize::call returned the Err response
\*   "panic"         the service panicked
\*   "dropped"       the request's future was dropped
StartPipeline ==
    [pc |-> "start", inner_calls |-> 0, downstream_calls |-> 0,
     authenticated |-> None, seen |-> None, response |-> None]

\* handlers of the services behind the middleware
MaxPipelineHandlers == 2

\* the handler lists of n handlers given to the builder
RECURSIVE HandlerLists(_)
HandlerLists(n) ==
    IF n = 0 THEN {<<>>}
    ELSE {Append(l, h) : l \in HandlerLists(n - 1), h \in LeafHandlers(n)}

\* the builder after adding the handlers of a list
RECURSIVE BuilderOf(_)
BuilderOf(l) ==
    IF l = <<>> THEN [handler |-> Unit, default_scheme |-> None]
    ELSE BuilderAdd(BuilderOf(SubSeq(l, 1, Len(l) - 1)), l[Len(l)])

\* the services build() returns for them, with each default scheme
PipelineServices ==
    {BuilderBuild(BuilderSetDefaultScheme(BuilderOf(l), d)) :
        l \in UNION {HandlerLists(n) : n \in 1..MaxPipelineHandlers}, d \in Schemes}

InitPipeline ==
    /\ builder = None
    /\ service \in PipelineServices
    /\ compound = None
    /\ ext = None
    /\ task = Idle
    /\ log = <<>>
    /\ last = NoLast
    /\ pendings = 0
    /\ request = NoAuthorization
    /\ pipeline = StartPipeline
    /\ peer = None

\* Authentication::call / AuthenticationMiddleware::call:
\* service.authenticate(&mut req).await, first poll
AuthenticationCall ==
    /\ pipeline.pc = "start"
    /\ \E a \in {AuthenticateTask(service.v, ext)}, outs \in AuthOuts :
          Drive(a.task, a.log, 0, outs)
    /\ pipeline' = [pipeline EXCEPT !.pc = "authenticate"]
    /\ UNCHANGED <<builder, service, compound, request, peer>>

\* mutant of AuthenticationThen: a failed authentication ends the request
AuthenticationThenStopsOnError(result) == IF result.ok THEN "inner" ELSE "response"

\* Authentication::call after the await: the result of authenticate is not
\* looked at, inner.call(req) comes next
AuthenticationThen(result) == "inner"

\* Authentication::call after service.authenticate returned
AuthenticationCallsInner ==
    /\ pipeline.pc = "authenticate"
    /\ task = Idle
    /\ last.op = "authenticate"
    /\ \E next \in {AuthenticationThen(last.compound)} :
          pipeline' = [pipeline EXCEPT
                          !.pc = next,
                          !.inner_calls = IF next = "inner" THEN @ + 1 ELSE @,
                          !.authenticated = Some(last.compound)]
    /\ last' = NoLast
    /\ log' = <<>>
    /\ UNCHANGED <<builder, service, compound, ext, task, pendings, request, peer>>

\* Authorize::call / AuthorizeMiddleware::call: policy.authorize(&mut req)
\* .await, first poll
AuthorizeCall ==
    /\ pipeline.pc = "inner"
    /\ \E roles \in RoleLists : PolicyAuthorizeRun(roles)
    /\ pipeline' = [pipeline EXCEPT !.pc = "authorize"]
    /\ UNCHANGED <<builder, service, compound, request, peer>>

\* mutant of AuthorizeThen: the handler runs also after an Err
AuthorizeThenAlwaysDownstream(out) == IF out.t = "Panic" THEN "panic" ELSE "downstream"

\* Authorize::call, the match on what policy.authorize returned
AuthorizeThen(out) ==
    CASE out.t = "Ok" -> "downstream"
      [] out.t = "Err" -> "response"
      [] OTHER -> "panic"

\* Authorize::call after policy.authorize returned
AuthorizeReturns ==
    /\ pipeline.pc = "authorize"
    /\ task = Idle
    /\ last.op = "authorize"
    /\ \E next \in {AuthorizeThen(last.out)} :
          pipeline' = [pipeline EXCEPT
                          !.pc = next,
                          !.downstream_calls = IF next = "downstream" THEN @ + 1 ELSE @,
                          !.seen = IF next = "downstream" THEN ext ELSE @,
                          !.response = IF last.out.t = "Err" THEN Some(last.out.resp) ELSE @]
    /\ UNCHANGED <<builder, service, compound, ext, task, log, last, pendings, request, peer>>

\* the caller drops the future Authentication::call returned while an
\* operation of the service is pending: the operation's futures are dropped
DropRequest ==
    /\ pipeline.pc \in {"authenticate", "authorize"}
    /\ task # Idle
    /\ task' = Idle
    /\ pendings' = 0
    /\ pipeline' = [pipeline EXCEPT !.pc = "dropped"]
    /\ UNCHANGED <<builder, service, compound, ext, log, last, request, peer>>

\* the next request arrives, with fresh extensions
RequestArrives ==
    /\ pipeline.pc \in {"downstream", "response", "dropped"}
    /\ pipeline' = StartPipeline
    /\ ext' = None
    /\ last' = NoLast
    /\ log' = <<>>
    /\ UNCHANGED <<builder, service, compound, task, pendings, request, peer>>

NextPipeline ==
    \/ AuthenticationCall
    \/ AuthenticationCallsInner
    \/ AuthorizeCall
    \/ AuthorizeReturns
    \/ PollTask
    \/ DropRequest
    \/ RequestArrives

SpecPipeline == InitPipeline /\ [][NextPipeline]_vars

\* ===================================================================
\* Properties
\* ===================================================================
\* the leaves of the service's compound handler, in tree order
\* ------------------------------------- two requests served concurrently
\* what belongs to one request and its task: the request's extensions, the
\* future of the operation in flight on it, and what that operation has
\* done and returned
Context(extensions, t, lg, lst, seen) ==
    [ext |-> extensions, task |-> t, log |-> lg, last |-> lst, pendings |-> seen]

\* a request that has just arrived
FreshContext == Context(None, Idle, <<>>, NoLast, 0)

\* one AuthenticationService shared by the tasks of two requests (the
\* middleware holds it behind an Arc and clones the handle per request)
ConcurrentServices ==
    {BuilderBuild(BuilderSetDefaultScheme(
         BuilderAdd(BuilderAdd([handler |-> Unit, default_scheme |-> None],
                               AuthenticationHandlerWithScheme(scheme, 1)),
                    SignInOutAuthenticationHandlerWithScheme("Cookie", 2)),
         "Bearer")) : scheme \in Schemes}

InitConcurrent ==
    /\ builder = None
    /\ service \in ConcurrentServices
    /\ compound = None
    /\ ext = None
    /\ task = Idle
    /\ log = <<>>
    /\ last = NoLast
    /\ pendings = 0
    /\ request = NoAuthorization
    /\ pipeline = NoPipeline
    /\ peer = Some(FreshContext)

\* mutant of RequestExtensions: one slot for all requests, the resumed task
\* finds what the task that ran before it left there
RequestExtensionsShared(own, running) == running

\* request.get_extensions_mut() in the resumed task: the extensions of its
\* own request, whatever the task that ran before it wrote to its request
RequestExtensions(own, running) == own

\* the executor runs the task of the other request: between two polls, or
\* between two operations of a request
SwitchRequest ==
    /\ peer.some
    /\ ext' = RequestExtensions(peer.v.ext, ext)
    /\ task' = peer.v.task
    /\ log' = peer.v.log
    /\ last' = peer.v.last
    /\ pendings' = peer.v.pendings
    /\ peer' = Some(Context(ext, task, log, last, pendings))
    /\ UNCHANGED <<builder, service, compound, request, pipeline>>

\* the running request is answered and the next one takes its place, with
\* fresh extensions
RequestDone ==
    /\ peer.some
    /\ task = Idle
    /\ last = NoLast
    /\ ext # None
    /\ ext' = None
    /\ UNCHANGED <<builder, service, compound, task, log, last, pendings, request,
                   pipeline, peer>>

NextConcurrent ==
    \/ ServiceAuthenticate
    \/ PolicyAuthorize
    \/ PollTask
    \/ Proceed
    \/ SwitchRequest
    \/ RequestDone

SpecConcurrent == InitConcurrent /\ [][NextConcurrent]_vars

\* ------------------------------------------------------ property helpers
ServiceLeaves == Leaves(service.v.handler)

IsCall(e) == e[1] = "call"
IsPoll(e) == e[1] = "poll"

\* the Ready value leaf i's future gave in the current operation, if any
ReadyResult(i) ==
    Only({IF js = {} THEN None ELSE Some(log[CHOOSE j \in js : TRUE][3].v) :
          js \in {{j \in DOMAIN log :
                      log[j][2] = i /\ IsPoll(log[j]) /\ log[j][3].ready}}})

\* the call events of the log, in order
CallsOf(lg) == SelectSeq(lg, IsCall)

\* the compound operation of the log: the one in flight or the one completed
CurrentInner == IF task # Idle THEN task.inner ELSE last.inner

Min(S) == CHOOSE x \in S : \A y \in S : x <= y

\* the leaves registered under a scheme name
Owners(scheme) == {i \in DOMAIN ServiceLeaves : ServiceLeaves[i].scheme = scheme}

\* the owners of a scheme name that have the operation: for sign_in and
\* sign_out only handlers registered with the sign-in/sign-out capability
CapableOwners(op, scheme) ==
    {i \in Owners(scheme) :
        op \in {"sign_in", "sign_out"} =>
            ServiceLeaves[i].type = "SignInOutAuthenticationHandlerWithScheme"}

\* the scheme a service lookup is to use: the one passed, else the default
ExpectedScheme == IF last.arg.some THEN last.arg.v ELSE service.v.default_scheme

\* ------------------------------------------------------------------ C1
\* C1: when a handler's authenticate succeeded, the authenticate method of no
\* later handler of the compound was invoked for the request.
C1_LaterHandlerNeverInvoked ==
    (last.op = "authenticate" /\ last.compound.ok) =>
        \A j \in DOMAIN log :
            IsCall(log[j]) => log[j][2] <= last.compound.principal.claims.sub

\* ------------------------------------------------------------------ C2
\* the result of a branch of the compound by the fallback rule: a leaf's is
\* what its future returned; a pair's is its first branch's when that is Ok,
\* else its second branch's
RECURSIVE BranchResult(_)
BranchResult(h) ==
    IF h.type = "Pair"
    THEN Only({IF ~r0.some THEN None
               ELSE IF r0.v.ok THEN r0 ELSE BranchResult(h.h1) :
               r0 \in {BranchResult(h.h0)}})
    ELSE ReadyResult(h.handler)

\* the pairs of a compound handler
RECURSIVE PairsOf(_)
PairsOf(h) ==
    IF h.type = "Pair" THEN {h} \cup PairsOf(h.h0) \cup PairsOf(h.h1) ELSE {}

\* C2: for every pair (A, B) of the compound, when A's authenticate failed
\* (NoResult or Fail), B's future ran to its result; and the authenticate of
\* the service's pair (A, B) then returns exactly B's result.
C2_FallbackReturnsSecond ==
    last.op = "authenticate" =>
        /\ \A p \in PairsOf(service.v.handler) :
              \A r0 \in {BranchResult(p.h0)} :
                  (r0.some /\ ~r0.v.ok) => BranchResult(p.h1).some
        /\ service.v.handler.type = "Pair" =>
              \A ra \in {BranchResult(service.v.handler.h0)} :
                  (ra.some /\ ~ra.v.ok) =>
                      \A rb \in {BranchResult(service.v.handler.h1)} :
                          rb.some /\ last.compound = rb.v

\* C2 witness: the first handler failed with Fail and the compound returned
\* the second handler's own NoResult
C2_Witness ==
    /\ last.op = "authenticate"
    /\ Len(ServiceLeaves) = 2
    /\ ReadyResult(1) = Some(Err("Fail"))
    /\ ReadyResult(2) = Some(Err("NoResult"))
    /\ last.compound = Err("NoResult")

\* ------------------------------------------------------------------ C3
\* a result that makes the combinator go on to its second future
NonCounting(v) == IF CurrentInner = "authenticate" THEN ~v.ok ELSE ~v.some

\* C3: in every state, a poll of the future of leaf k > 1 comes after a poll
\* in which the future of leaf k-1 returned Ready with Err / None, and no
\* future is polled after a later leaf's future was polled.
C3_SecondPolledAfterFirstReady ==
    \A j \in DOMAIN log :
        IsPoll(log[j]) =>
            /\ log[j][2] > 1 =>
                  \E i \in 1..(j - 1) :
                      /\ IsPoll(log[i])
                      /\ log[i][2] = log[j][2] - 1
                      /\ log[i][3].ready
                      /\ NonCounting(log[i][3].v)
            /\ \A i \in 1..(j - 1) : IsPoll(log[i]) => log[i][2] <= log[j][2]

\* C3 witness: the first future returned Pending, later Ready with an error,
\* and only then the second was polled
C3_Witness ==
    /\ CallsOf(log) # <<>>
    /\ \E i, j, k \in DOMAIN log :
          /\ i < j /\ j < k
          /\ log[i] = PollEv(1, Pending)
          /\ IsPoll(log[j]) /\ log[j][2] = 1 /\ log[j][3].ready
          /\ IsPoll(log[k]) /\ log[k][2] = 2

\* ------------------------------------------------------------------ C4
\* C4: with handlers registered as 1..n, authenticate calls them in that
\* order, polls their futures in that order, returns the result of the first
\* handler whose authenticate succeeded, and the last handler's error when
\* every handler failed.
C4_RegistrationOrder ==
    last.op = "authenticate" =>
        \A n \in {Len(ServiceLeaves)} :
        \A oks \in {{k \in 1..n : ReadyResult(k).some /\ ReadyResult(k).v.ok}} :
        /\ CallsOf(log) = [k \in 1..n |-> CallEv(k, "authenticate")]
        /\ \A i \in DOMAIN log :
              IsPoll(log[i]) =>
                  \A j \in (i + 1)..Len(log) :
                      IsPoll(log[j]) => log[i][2] <= log[j][2]
        /\ IF oks # {}
           THEN /\ last.compound = ReadyResult(Min(oks)).v
                /\ last.compound.principal.claims.sub = Min(oks)
                /\ \A i \in 1..(Min(oks) - 1) : ReadyResult(i).some
           ELSE /\ \A i \in 1..n : ReadyResult(i).some
                /\ last.compound = ReadyResult(n).v

\* C4 witness: three handlers, the first two failed, the third's principal
\* was returned
C4_Witness ==
    /\ last.op = "authenticate"
    /\ Len(ServiceLeaves) = 3
    /\ ReadyResult(1) = Some(Err("NoResult"))
    /\ ReadyResult(2) = Some(Err("Fail"))
    /\ last.compound.ok
    /\ last.compound.principal.claims.sub = 3

\* ------------------------------------------------------------------ C5
\* the leaves of the compound handler used directly
CompoundLeaves == Leaves(compound.v)

\* its leaves registered under the scheme of the completed lookup
LookupOwners == {i \in DOMAIN CompoundLeaves : CompoundLeaves[i].scheme = last.scheme}

\* those of them that have the operation of the completed lookup
LookupCapableOwners ==
    {i \in LookupOwners :
        last.inner \in {"sign_in", "sign_out"} =>
            CompoundLeaves[i].type = "SignInOutAuthenticationHandlerWithScheme"}

\* C5 as stated: a named lookup returns the response of the handler that owns
\* the name when exactly one leaf owns it, and None when no leaf owns it.
C5_LookupReturnsOwner ==
    (last.op = "compound" /\ last.inner \in LookupOps) =>
        /\ Cardinality(LookupOwners) = 1 =>
              last.compound = Some(AuthResponse(Min(LookupOwners), last.inner))
        /\ LookupOwners = {} => last.compound = None

\* C5 amended: for every nesting of the compound handler, a named lookup
\* returns the response of the handler that owns the name when exactly one
\* leaf owns it and that handler has the operation (sign_in and sign_out
\* exist only on handlers registered with the capability); it returns None
\* when no leaf owns the name and when no owner has the operation.
C5_LookupReturnsCapableOwner ==
    (last.op = "compound" /\ last.inner \in LookupOps) =>
        /\ (Cardinality(LookupOwners) = 1 /\ LookupCapableOwners = LookupOwners) =>
              last.compound = Some(AuthResponse(Min(LookupOwners), last.inner))
        /\ LookupCapableOwners = {} => last.compound = None

\* C5 witness: the single owner sits in the second branch of a second branch
\* and its forbid response came back
C5_Witness ==
    /\ last.op = "compound"
    /\ last.inner = "forbid"
    /\ compound.v.type = "Pair"
    /\ compound.v.h1.type = "Pair"
    /\ LookupOwners = {3}
    /\ last.compound = Some(AuthResponse(3, "forbid"))

\* ------------------------------------------------------------------ C6
\* what a lookup of the service's default scheme gives for an operation: the
\* response of the first handler registered under it, a panic when there is none
DefaultResponse(op) ==
    IF CapableOwners(op, service.v.default_scheme) = {} THEN Panic
    ELSE [t |-> "Err",
          resp |-> AuthResponse(Min(CapableOwners(op, service.v.default_scheme)), op)]

\* C6: authorize on a request without a SuccessAuthenticationResult never
\* evaluates the requirement and goes for the default scheme's challenge: it
\* returns Err with the challenge response of the handler registered under
\* the default scheme (and panics when no handler is registered under it).
C6_NoResultChallenges ==
    /\ (task # Idle /\ task.op = "authorize" /\ ~task.ext0.some) =>
          (task.evals = <<>> /\ task.inner = "challenge")
    /\ (last.op = "authorize" /\ ~last.ext0.some) =>
          /\ last.evals = <<>>
          /\ last.inner = "challenge"
          /\ last.out = DefaultResponse("challenge")
          /\ \A j \in DOMAIN log : IsCall(log[j]) => log[j][3] = "challenge"

\* C6 witness: a policy requiring a role returned the challenge response on a
\* request without a result
C6_Witness ==
    /\ last.op = "authorize"
    /\ ~last.ext0.some
    /\ last.roles # <<>>
    /\ last.out.t = "Err"
    /\ last.out.resp.op = "challenge"

\* ------------------------------------------------------------------ C7
\* C7: authorize on a request with a SuccessAuthenticationResult returns Ok
\* exactly when the principal has every role the policy requires, and else
\* Err with the default scheme's forbid response (a panic when no handler is
\* registered under the default scheme), never a challenge.
C7_ResultDecidesByRequirement ==
    (last.op = "authorize" /\ last.ext0.some) =>
        LET pass == \A k \in DOMAIN last.roles :
                        is_in_role(last.ext0.v.principal, last.roles[k]) IN
        /\ pass <=> (last.out = [t |-> "Ok"])
        /\ ~pass => last.out = DefaultResponse("forbid")
        /\ \A j \in DOMAIN log : IsCall(log[j]) => log[j][3] = "forbid"

\* C7 witness: the principal lacks one of two required roles and the forbid
\* response came back
C7_Witness ==
    /\ last.op = "authorize"
    /\ last.ext0.some
    /\ Len(last.roles) = 2
    /\ is_in_role(last.ext0.v.principal, last.roles[1])
    /\ ~is_in_role(last.ext0.v.principal, last.roles[2])
    /\ last.out.t = "Err"
    /\ last.out.resp.op = "forbid"

\* ------------------------------------------------------------------ C8
\* C8: authenticate attaches SuccessAuthenticationResult{principal} when the
\* compound handler returned Ok(principal); while it is in flight and when
\* the compound handler returned an error the extension slot is as it was
\* before the call.
C8_AttachOnlyOnSuccess ==
    /\ (task # Idle /\ task.op = "authenticate") => ext = task.ext0
    /\ last.op = "authenticate" =>
          IF last.compound.ok
          THEN ext = Some([principal |-> last.compound.principal])
          ELSE ext = last.ext0

\* C8 witness: a request that carried a result went through a failed
\* authenticate
C8_Witness ==
    /\ last.op = "authenticate"
    /\ ~last.compound.ok
    /\ last.ext0.some
    /\ ext = last.ext0

\* ------------------------------------------------------------------ C9
\* C9: a service lookup consults only handlers registered under the scheme
\* passed to it, or under the default scheme when none was passed; the
\* response is theirs, and with no such handler it does not fall back to
\* another scheme.
C9_SchemeResolution ==
    (last.op \in LookupOps) =>
        /\ last.scheme = ExpectedScheme
        /\ \A j \in DOMAIN log :
              IsCall(log[j]) => ServiceLeaves[log[j][2]].scheme = ExpectedScheme
        /\ last.out.t = "Response" =>
              last.out.resp = AuthResponse(Min(CapableOwners(last.op, ExpectedScheme)), last.op)
        /\ CapableOwners(last.op, ExpectedScheme) = {} => last.compound = None

\* C9 witness: a scheme other than the default was passed and its handler
\* answered
C9_Witness ==
    /\ last.op \in LookupOps
    /\ last.arg.some
    /\ last.arg.v # service.v.default_scheme
    /\ last.out.t = "Response"
    /\ ServiceLeaves[last.out.resp.by].scheme = last.arg.v

\* ----------------------------------------------------------------- C10
\* the scheme the completed lookup had to use
LookupScheme == IF last.op = "authorize" THEN service.v.default_scheme ELSE ExpectedScheme

\* C10: a lookup (challenge, forbid, sign_in, sign_out, also the policy's)
\* whose scheme is registered for no handler, or for sign_in / sign_out only
\* for handlers without that capability, ends in a panic; it returns a
\* response only when a handler that has the operation is registered.
C10_NotFoundPanics ==
    (last.op \in LookupOps \cup {"authorize"} /\ last.inner \in LookupOps) =>
        (CapableOwners(last.inner, LookupScheme) = {} <=> last.out = Panic)

\* C10 witness: sign_in for a scheme whose only handler was registered
\* without the capability panicked
C10_Witness ==
    /\ last.op = "sign_in"
    /\ Owners(ExpectedScheme) # {}
    /\ CapableOwners("sign_in", ExpectedScheme) = {}
    /\ last.out = Panic

\* ----------------------------------------------------------------- C11
\* the scheme name the compound lookup of the log was given
CurrentScheme == IF task # Idle THEN task.scheme ELSE last.scheme

\* C11: in a sign_in / sign_out lookup on a compound handler, the future of a
\* leaf registered without the capability completes with None for every
\* scheme name, its own included; the future of a leaf registered with the
\* capability completes with Some (of its handler's response) exactly when
\* the requested name equals its scheme name.
C11_SignInOutByCapability ==
    \A j \in DOMAIN log :
        (IsPoll(log[j]) /\ log[j][3].ready /\ CurrentInner \in {"sign_in", "sign_out"}) =>
            LET leaf == CompoundLeaves[log[j][2]]
                v == log[j][3].v IN
            IF leaf.type = "AuthenticationHandlerWithScheme"
            THEN v = None
            ELSE /\ v.some <=> (CurrentScheme = leaf.scheme)
                 /\ v.some => v.v = AuthResponse(leaf.handler, CurrentInner)

\* C11 witness: sign_in by a name that a leaf without the capability and a
\* leaf with it both carry: the first answered None, the second Some
C11_Witness ==
    /\ last.op = "compound"
    /\ last.inner = "sign_in"
    /\ \E i, j \in DOMAIN CompoundLeaves :
          /\ CompoundLeaves[i].type = "AuthenticationHandlerWithScheme"
          /\ CompoundLeaves[i].scheme = last.scheme
          /\ CompoundLeaves[j].type = "SignInOutAuthenticationHandlerWithScheme"
          /\ \E a, b \in DOMAIN log :
                /\ log[a] = PollEv(i, Ready(None))
                /\ log[b] = PollEv(j, Ready(Some(AuthResponse(j, "sign_in"))))

\* ----------------------------------------------------------------- C12
\* C12 as stated: with two or more handlers registered under the scheme name
\* of a lookup, the lookup returns the response of the earliest-registered
\* of them.
C12_DuplicateHitsEarliest ==
    (last.op \in LookupOps /\ Cardinality(Owners(ExpectedScheme)) >= 2) =>
        last.out = [t |-> "Response",
                    resp |-> AuthResponse(Min(Owners(ExpectedScheme)), last.op)]

\* C12 amended: with two or more handlers registered under the scheme name of
\* a lookup, the lookup returns the response of the earliest-registered of
\* them that has the operation (every handler has challenge and forbid, only
\* handlers registered with the capability have sign_in and sign_out), never
\* that of a handler registered after it; when none of them has the
\* operation the lookup finds nothing.
C12_DuplicateHitsEarliestCapable ==
    (last.op \in LookupOps /\ Cardinality(Owners(ExpectedScheme)) >= 2) =>
        IF CapableOwners(last.op, ExpectedScheme) # {}
        THEN last.out = [t |-> "Response",
                         resp |-> AuthResponse(Min(CapableOwners(last.op, ExpectedScheme)),
                                               last.op)]
        ELSE last.compound = None

\* C12 witness: three handlers under one name, the first without sign_out,
\* and sign_out returned the second's response
C12_Witness ==
    /\ last.op = "sign_out"
    /\ Owners(ExpectedScheme) = {1, 2, 3}
    /\ CapableOwners("sign_out", ExpectedScheme) = {2, 3}
    /\ last.out = [t |-> "Response", resp |-> AuthResponse(2, "sign_out")]

\* ----------------------------------------------------------------- C13
\* C13: a requirement ((R1, R2), R3) gives on every principal the boolean
\* (R1, (R2, R3)) gives on it, and the other way round.
C13_CompositionAssociative ==
    (last.op = "requirement" /\ last.requirement.type = "Pair") =>
        LET req == last.requirement IN
        /\ req.h0.type = "Pair" =>
              last.out.value =
                  RequirementAuthorize(Pair(req.h0.h0, Pair(req.h0.h1, req.h1)),
                                       last.principal).value
        /\ req.h1.type = "Pair" =>
              last.out.value =
                  RequirementAuthorize(Pair(Pair(req.h0, req.h1.h0), req.h1.h1),
                                       last.principal).value

\* C13 witness: ((test, admin), test) held on a principal with both roles
C13_Witness ==
    /\ last.op = "requirement"
    /\ last.requirement = Pair(Pair(IsInRoleRequirement("test"), IsInRoleRequirement("admin")),
                               IsInRoleRequirement("test"))
    /\ last.out.value

\* ----------------------------------------------------------------- C14
\* C14: () authorizes every principal; ((), R) and (R, ()) give on every
\* principal what R gives; authorize of a policy built without any
\* requirement returns Ok on every request that carries a result.
C14_UnitNeutral ==
    /\ last.op = "requirement" =>
          LET req == last.requirement IN
          /\ req = Unit => last.out.value
          /\ (req.type = "Pair" /\ req.h0 = Unit) =>
                last.out.value = RequirementAuthorize(req.h1, last.principal).value
          /\ (req.type = "Pair" /\ req.h1 = Unit) =>
                last.out.value = RequirementAuthorize(req.h0, last.principal).value
    /\ (last.op = "authorize" /\ last.roles = <<>> /\ last.ext0.some) =>
          last.out = [t |-> "Ok"]

\* C14 witness: (R, ()) was false on a principal on which R is false
C14_Witness ==
    /\ last.op = "requirement"
    /\ last.requirement = Pair(IsInRoleRequirement("admin"), Unit)
    /\ ~is_in_role(last.principal, "admin")
    /\ ~last.out.value

\* ----------------------------------------------------------------- C15
\* the leaf requirements of a requirement, left to right
RECURSIVE RequirementLeaves(_)
RequirementLeaves(req) ==
    IF req.type = "Pair" THEN RequirementLeaves(req.h0) \o RequirementLeaves(req.h1)
    ELSE <<req>>

\* what a leaf requirement gives on a principal
LeafHolds(req, principal) ==
    IF req.type = "Unit" THEN TRUE ELSE is_in_role(principal, req.role)

\* C15: evaluating a composed requirement invokes every leaf requirement of
\* both members, those of the second also when the first is false, and the
\* result is the conjunction of the two members' results.
C15_NoShortCircuit ==
    (last.op = "requirement" /\ last.requirement.type = "Pair") =>
        LET req == last.requirement IN
        /\ last.evals = RequirementLeaves(req.h0) \o RequirementLeaves(req.h1)
        /\ last.out.value <=>
              /\ \A k \in DOMAIN RequirementLeaves(req.h0) :
                    LeafHolds(RequirementLeaves(req.h0)[k], last.principal)
              /\ \A k \in DOMAIN RequirementLeaves(req.h1) :
                    LeafHolds(RequirementLeaves(req.h1)[k], last.principal)

\* C15 witness: the first member was false and the second was still invoked
C15_Witness ==
    /\ last.op = "requirement"
    /\ last.requirement = Pair(IsInRoleRequirement("admin"), IsInRoleRequirement("test"))
    /\ ~is_in_role(last.principal, "admin")
    /\ last.evals = <<IsInRoleRequirement("admin"), IsInRoleRequirement("test")>>
    /\ ~last.out.value

\* ----------------------------------------------------------------- C16
\* the principal has a "role" claim that is the string role, or an array
\* with the string role among its elements
RoleClaimHas(principal, role) ==
    /\ principal.claims.role.some
    /\ LET c == principal.claims.role.v IN
       IF c.tag = "PlainValue"
       THEN c.value.tag = "String" /\ c.value.s = role
       ELSE \E k \in DOMAIN c.arr : c.arr[k].tag = "String" /\ c.arr[k].s = role

\* C16: IsInRoleRequirement(r) is true exactly when the principal's "role"
\* claim is the string r or an array containing the string r; it is false
\* when the claim is absent, differs in case, or holds no string r.
C16_RoleMembership ==
    (last.op = "requirement" /\ last.requirement.type = "IsInRoleRequirement") =>
        (last.out.value <=> RoleClaimHas(last.principal, last.requirement.role))

\* C16 witness: the role is the second element of the array claim
C16_Witness ==
    /\ last.op = "requirement"
    /\ last.requirement = IsInRoleRequirement("test")
    /\ last.principal.claims.role = Some(Array(<<PlainString("admin"), PlainString("test")>>))
    /\ last.out.value

\* ----------------------------------------------------------------- C17
\* the request carries "Bearer " and a token that decodes, with the role
\* "user" (alone, as a string or in an array) in its claims
CarriesUserToken ==
    /\ request.authorization.some
    /\ request.authorization.v.to_str.some
    /\ LET text == request.authorization.v.to_str.v IN
       /\ text.prefix = "Bearer "
       /\ text.rest.valid
       /\ text.rest.claims.role \in {Some(JsonString("user")),
                                      Some(JsonArray(<<JsonString("user")>>))}

\* C17: on a request with a valid bearer token of role "user", authenticate
\* of the JwtBearerHandler service attaches a principal in role "user", and
\* authorize of a policy requiring role "test", run after it, returns Err
\* with status 403 and no headers.
C17_JwtUserForbidden ==
    CarriesUserToken =>
        /\ last.op = "authenticate" =>
              /\ ext.some
              /\ is_in_role(ext.v.principal, "user")
              /\ ~is_in_role(ext.v.principal, "test")
        /\ (last.op = "authorize" /\ last.ext0.some /\ last.roles = <<"test">>) =>
              last.out = [t |-> "Err", resp |-> [status_code |-> 403, headers |-> {}]]

\* C17 witness: the token's role is the string "user", the request went
\* through authenticate, and authorize for role "test" returned 403
C17_Witness ==
    /\ CarriesUserToken
    /\ request.authorization.v.to_str.v.rest.claims.role = Some(JsonString("user"))
    /\ last.op = "authorize"
    /\ last.roles = <<"test">>
    /\ ext.some
    /\ last.out.t = "Err"
    /\ last.out.resp.status_code = 403

\* ----------------------------------------------------------------- C18
\* C18: the downstream handler has been called exactly when authorize
\* returned Ok, never after it returned a challenge or forbid response (or
\* panicked); and when it is called the extension slot it reads holds the
\* principal authenticate attached for this request.
C18_DownstreamOnlyWhenAuthorized ==
    /\ pipeline.downstream_calls = IF pipeline.pc = "downstream" THEN 1 ELSE 0
    /\ pipeline.pc \in {"downstream", "response", "panic"} =>
          /\ last.op = "authorize"
          /\ (pipeline.pc = "downstream") <=> (last.out = [t |-> "Ok"])
          /\ (pipeline.pc = "response") <=> (last.out.t = "Err")
    /\ pipeline.pc = "response" =>
          /\ pipeline.response = Some(last.out.resp)
          /\ last.inner \in {"challenge", "forbid"}
    /\ pipeline.pc = "downstream" =>
          /\ pipeline.authenticated.some
          /\ pipeline.authenticated.v.ok
          /\ pipeline.seen = Some([principal |-> pipeline.authenticated.v.principal])

\* C18 witness: the second handler authenticated the request, a policy
\* requiring a role let it through, and the handler saw that principal
C18_Witness ==
    /\ pipeline.pc = "downstream"
    /\ last.roles # <<>>
    /\ pipeline.seen.some
    /\ pipeline.seen.v.principal.claims.sub = 2

\* ----------------------------------------------------------------- C19
\* C19: the Authentication middleware has not called its inner service
\* while authenticate is pending, and has called it exactly once as soon as
\* authenticate has returned, with Ok, NoResult or Fail alike; every response
\* of the stack is the one the Authorize middleware got from authorize.
C19_AuthenticationNeverAborts ==
    /\ pipeline.pc \in {"start", "authenticate"} => pipeline.inner_calls = 0
    /\ pipeline.pc \in {"inner", "authorize", "downstream", "response", "panic"} =>
          /\ pipeline.inner_calls = 1
          /\ pipeline.authenticated.some
    /\ pipeline.pc = "dropped" =>
          pipeline.inner_calls = IF pipeline.authenticated.some THEN 1 ELSE 0
    /\ (pipeline.pc = "response" \/ pipeline.response.some) =>
          /\ pipeline.inner_calls = 1
          /\ last.op = "authorize"
          /\ pipeline.response = Some(last.out.resp)

\* C19 witness: authenticate returned Fail and the inner service was called
C19_Witness ==
    /\ pipeline.pc = "inner"
    /\ pipeline.authenticated = Some(Err("Fail"))
    /\ pipeline.inner_calls = 1

\* ----------------------------------------------------------------- C20
\* C20: while authenticate is pending, and when the request is dropped
\* while it is pending, the extensions hold no SuccessAuthenticationResult;
\* one is there only when the compound handler's authenticate has returned
\* Ok for this request, and it holds that principal.
C20_NothingAttachedWhenCancelled ==
    /\ (pipeline.pc = "authenticate" /\ task # Idle) => ext = None
    /\ (pipeline.pc = "dropped" /\ ~pipeline.authenticated.some) => ext = None
    /\ ext.some =>
          IF pipeline.pc = "authenticate"
          THEN /\ last.op = "authenticate"
               /\ last.compound.ok
               /\ ext = Some([principal |-> last.compound.principal])
          ELSE /\ pipeline.authenticated.some
               /\ pipeline.authenticated.v.ok
               /\ ext = Some([principal |-> pipeline.authenticated.v.principal])

\* C20 witness: the request was dropped while the second handler's future
\* was pending, after the first handler's had failed
C20_Witness ==
    /\ pipeline.pc = "dropped"
    /\ ~pipeline.authenticated.some
    /\ ext = None
    /\ \E i, j \in DOMAIN log :
          /\ i < j
          /\ log[i] = PollEv(1, Ready(Err("Fail")))
          /\ log[j] = PollEv(2, Pending)

\* ----------------------------------------------------------------- C21
\* C21: the request's slot for SuccessAuthenticationResult holds at most one
\* value, and after an authenticate that returned Ok on a request that
\* already carried a result the slot holds the new principal, not the
\* earlier one.
C21_LaterSuccessReplaces ==
    /\ ext = None \/ ext = Some([principal |-> ext.v.principal])
    /\ (last.op = "authenticate" /\ last.compound.ok /\ last.ext0.some) =>
          /\ ext.some
          /\ ext.v.principal = last.compound.principal

\* C21 witness: a second authenticate succeeded with another handler than
\* the one whose principal the request carried
C21_Witness ==
    /\ last.op = "authenticate"
    /\ last.compound.ok
    /\ last.ext0.some
    /\ last.ext0.v.principal # last.compound.principal
    /\ ext = Some([principal |-> last.compound.principal])

\* ----------------------------------------------------------------- C22
\* the claim values of a principal of the model
ClaimValuesOf(principal) ==
    IF claim_role(principal).some THEN {claim_role(principal).v} ELSE {}

\* the JwtBearerHandler half: no principal that authenticate attached holds
\* a claim whose value is an array of zero elements
JwtNoEmptyArrayClaim ==
    ext.some => \A c \in ClaimValuesOf(ext.v.principal) : c # Array(<<>>)

\* C22: no ClaimValue the program holds, built by user code or held by an
\* attached principal, is an Array of zero elements.
C22_EmptyArrayNotRepresentable ==
    /\ last.op = "claim_value" => last.out.value # Array(<<>>)
    /\ JwtNoEmptyArrayClaim

\* ----------------------------------------------------------------- C23
\* what the compound handler returns for the polls of a log: the value of
\* the first handler future that returned Ok, else the value of the last
\* one that returned
AloneCompound(lg) ==
    LET ready == {j \in DOMAIN lg : IsPoll(lg[j]) /\ lg[j][3].ready}
        oks == {j \in ready : lg[j][3].v.ok} IN
    IF oks # {} THEN lg[Min(oks)][3].v
    ELSE lg[CHOOSE j \in ready : \A k \in ready : k <= j][3].v

\* what authorize returns for a request served alone that carries the
\* extensions e, under the policy of a role list
AloneAuthorize(e, roles) ==
    IF ~e.some THEN DefaultResponse("challenge")
    ELSE IF \A k \in DOMAIN roles : is_in_role(e.v.principal, roles[k])
         THEN [t |-> "Ok"]
         ELSE DefaultResponse("forbid")

\* a request and its task are as they are when the request is served alone:
\* its extensions are those it had when its operation started, but for the
\* principal of its own successful authenticate, and what its operation
\* returned is given by its own handler futures and its own extensions
ContextAlone(c) ==
    /\ c.task # Idle => c.ext = c.task.ext0
    /\ c.last.op = "authenticate" =>
          /\ c.last.compound = AloneCompound(c.log)
          /\ c.ext = IF c.last.compound.ok
                     THEN Some([principal |-> c.last.compound.principal])
                     ELSE c.last.ext0
    /\ c.last.op = "authorize" =>
          /\ c.ext = c.last.ext0
          /\ c.last.out = AloneAuthorize(c.last.ext0, c.last.roles)

\* C23: with the tasks of two requests interleaved in any way on one
\* AuthenticationService, each request's extensions and the result of its
\* authorize are what they are when the request is served alone, and no
\* step writes to the service.
C23_RequestsIndependent ==
    /\ [](peer.some => /\ ContextAlone(Context(ext, task, log, last, pendings))
                       /\ ContextAlone(peer.v))
    /\ [][service' = service]_vars

\* C23 witness: one request's authenticate returned Ok after a Pending
\* while the other request's authenticate, started before that, is still
\* pending with nothing attached
C23_Witness ==
    /\ peer.some
    /\ last.op = "authenticate"
    /\ last.compound.ok
    /\ ext.some
    /\ \E j \in DOMAIN log : IsPoll(log[j]) /\ ~log[j][3].ready
    /\ peer.v.task # Idle
    /\ peer.v.task.op = "authenticate"
    /\ peer.v.pendings > 0
    /\ peer.v.ext = None

\* ----------------------------------------------------------------- C24
\* C24: two authorize calls under the same policy on requests that carry
\* the same SuccessAuthenticationResult (or none) return the same result,
\* whatever was served before and whatever the other request carries now.
C24_AuthorizePure ==
    (/\ peer.some
     /\ last.op = "authorize"
     /\ peer.v.last.op = "authorize"
     /\ last.roles = peer.v.last.roles
     /\ last.ext0 = peer.v.last.ext0) =>
        /\ last.out = peer.v.last.out
        /\ last.evals = peer.v.last.evals

\* C24 witness: two requests that carry the same principal were both
\* forbidden by the same policy while they carry different results now
C24_Witness ==
    /\ peer.some
    /\ last.op = "authorize"
    /\ peer.v.last.op = "authorize"
    /\ last.roles = peer.v.last.roles
    /\ last.roles # <<>>
    /\ last.ext0.some
    /\ last.ext0 = peer.v.last.ext0
    /\ last.out = peer.v.last.out
    /\ last.out.t = "Err"

\* ----------------------------------------------------------------- C25
\* C25: no step changes a built service (its default scheme, its handlers
\* and their order); build hands the builder's handler and its default
\* scheme to the service; adding a handler appends one leaf and keeps the
\* default scheme, and set_default_scheme keeps the handlers.
C25_ServiceImmutable ==
    [][/\ service.some => service' = service
       /\ (builder.some /\ ~builder'.some /\ service'.some) =>
             /\ builder.v.default_scheme = Some(service'.v.default_scheme)
             /\ service'.v.handler = builder.v.handler
       /\ (builder.some /\ builder'.some) =>
             IF builder'.v.handler # builder.v.handler
             THEN /\ builder'.v.default_scheme = builder.v.default_scheme
                  /\ Len(Leaves(builder'.v.handler)) = Len(Leaves(builder.v.handler)) + 1
                  /\ SubSeq(Leaves(builder'.v.handler), 1, Len(Leaves(builder.v.handler)))
                        = Leaves(builder.v.handler)
             ELSE builder'.v.default_scheme.some]_vars

\* C25 witness: a service of three handlers whose default scheme is the
\* second one's has served a sign_out after an authenticate attached a result
C25_Witness ==
    /\ service.some
    /\ Len(ServiceLeaves) = 3
    /\ ServiceLeaves[1].scheme = "Bearer"
    /\ service.v.default_scheme = "Cookie"
    /\ ext.some
    /\ last.op = "sign_out"
    /\ last.out.t = "Response"

\* ----------------------------------------------------------------- C26
\* the request has no bearer token: no Authorization header, one that is not
\* text, or one whose text does not start with "Bearer "
NoBearerToken ==
    \/ ~request.authorization.some
    \/ ~request.authorization.v.to_str.some
    \/ request.authorization.v.to_str.v.prefix # "Bearer "

\* C26: the JwtBearerHandler's authenticate future returns Err(NoResult) on
\* a request without a bearer token and Err(Fail) on a bearer token that
\* does not decode; after either error a compound handler polls the next
\* handler's future and returns what that one returns.
C26_JwtErrorsFallThrough ==
    LET jwt == ReadyResult(JwtBearer) IN
    /\ (task # Idle /\ task.op = "authenticate") =>
          /\ jwt.some /\ ~jwt.v.ok
          /\ \E j \in DOMAIN log : log[j] = PollEv(2, Pending)
    /\ last.op = "authenticate" =>
          /\ jwt.some
          /\ NoBearerToken => jwt.v = Err("NoResult")
          /\ (~NoBearerToken /\ ~request.authorization.v.to_str.v.rest.valid) =>
                jwt.v = Err("Fail")
          /\ (~NoBearerToken /\ request.authorization.v.to_str.v.rest.valid) => jwt.v.ok
          /\ IF jwt.v.ok \/ Len(ServiceLeaves) = 1
             THEN last.compound = jwt.v
             ELSE /\ ReadyResult(2).some
                  /\ last.compound = ReadyResult(2).v

\* C26 witness: the bearer token did not decode, the JwtBearerHandler's
\* future returned Err(Fail), and the principal of the handler after it was
\* attached
C26_Witness ==
    /\ last.op = "authenticate"
    /\ ~NoBearerToken
    /\ ReadyResult(JwtBearer) = Some(Err("Fail"))
    /\ last.compound.ok
    /\ ext = Some([principal |-> UserPrincipal(2, RoleClaimOf(2))])

\* ----------------------------------------------------------------- C27
\* C27: on a request without an Authorization header the JwtBearerHandler
\* service attaches nothing, and authorize of a policy requiring role "test"
\* on the request with nothing attached returns Err with status 401 and the
\* header WWW-Authenticate: Bearer, without evaluating the requirement.
C27_JwtNoHeaderChallenged ==
    request = NoAuthorization =>
        /\ Len(ServiceLeaves) = 1 => ext = None
        /\ (last.op = "authenticate" /\ ~last.compound.ok) => ext = last.ext0
        /\ (last.op = "authorize" /\ ~last.ext0.some /\ last.roles = <<"test">>) =>
              /\ last.out = [t |-> "Err",
                             resp |-> [status_code |-> 401,
                                       headers |-> {<<"www-authenticate", "Bearer">>}]]
              /\ last.evals = <<>>

\* C27 witness: the request has no header, nothing is attached, and
\* authorize for role "test" returned the 401 response
C27_Witness ==
    /\ request = NoAuthorization
    /\ Len(ServiceLeaves) = 1
    /\ ext = None
    /\ last.op = "authorize"
    /\ last.roles = <<"test">>
    /\ last.out.t = "Err"
    /\ last.out.resp.status_code = 401

\* ----------------------------------------------------------------- C28
\* C28: build returns None exactly when the builder has no default scheme,
\* and else a service of the builder's handler and default scheme, also when
\* no handler is registered under that scheme; on such a service authorize
\* on a request without a SuccessAuthenticationResult panics.
C28_BuildDoesNotValidate ==
    [][/\ (builder.some /\ ~builder'.some) =>
             /\ service'.some <=> builder.v.default_scheme.some
             /\ service'.some =>
                   service'.v = [default_scheme |-> builder.v.default_scheme.v,
                                 handler |-> builder.v.handler]
       /\ ((last.op = "authorize" /\ ~last.ext0.some
                /\ Owners(service.v.default_scheme) = {}) => last.out = Panic)']_vars

\* C28 witness: the service's default scheme is not the scheme of any of its
\* handlers and authorize on a request without a result panicked
C28_Witness ==
    /\ service.some
    /\ Owners(service.v.default_scheme) = {}
    /\ last.op = "authorize"
    /\ ~last.ext0.some
    /\ last.out = Panic

\* ----------------------------------------------------------------- C29
\* the leaves whose futures a future holds
RECURSIVE FutLeaves(_)
FutLeaves(fut) ==
    CASE fut.type = "HandlerFut" -> {fut.handler}
      [] fut.type \in {"Ready", "OptionFuture"} -> {fut.leaf}
      [] OTHER -> FutLeaves(fut.fut1) \cup FutLeaves(fut.fut2)

\* the select-seq combinators of a future, the outermost first
RECURSIVE SelectSeqNodes(_)
SelectSeqNodes(fut) ==
    IF fut.type \in {"SelectSeqOk", "SelectSeqSome"}
    THEN <<fut>> \o SelectSeqNodes(fut.fut1) \o SelectSeqNodes(fut.fut2)
    ELSE <<>>

Max(S) == CHOOSE x \in S : \A y \in S : y <= x

\* C29: every select-seq combinator of the operation in flight is in
\* PollSecond only if its first future has returned Ready with a result
\* that does not count, and in PollFirst only if no future of its second
\* branch has been polled; a combinator in PollSecond stays there; and no
\* handler future is polled after it returned Ready.
C29_SelectSeqForwardOnly ==
    /\ [](/\ task # Idle =>
                \A n \in DOMAIN SelectSeqNodes(task.fut) :
                    LET node == SelectSeqNodes(task.fut)[n] IN
                    IF node.state = PollSecond
                    THEN \E j \in DOMAIN log :
                            /\ IsPoll(log[j])
                            /\ log[j][2] = Max(FutLeaves(node.fut1))
                            /\ log[j][3].ready
                            /\ NonCounting(log[j][3].v)
                    ELSE /\ node.state = PollFirst
                         /\ \A j \in DOMAIN log :
                               IsPoll(log[j]) => log[j][2] \notin FutLeaves(node.fut2)
           /\ \A i, j \in DOMAIN log :
                (i < j /\ IsPoll(log[i]) /\ IsPoll(log[j]) /\ log[i][2] = log[j][2])
                    => ~log[i][3].ready)
    /\ [][(task # Idle /\ task' # Idle) =>
             /\ Len(SelectSeqNodes(task'.fut)) = Len(SelectSeqNodes(task.fut))
             /\ \A n \in DOMAIN SelectSeqNodes(task.fut) :
                   SelectSeqNodes(task.fut)[n].state = PollSecond
                       => SelectSeqNodes(task'.fut)[n].state = PollSecond]_vars

\* C29 witness: of three handlers both combinators are in PollSecond with
\* the third future pending, after a poll in which the second future was
\* pending and one combinator was in PollSecond already
C29_Witness ==
    /\ task # Idle
    /\ task.inner = "authenticate"
    /\ Len(SelectSeqNodes(task.fut)) = 2
    /\ \A n \in 1..2 : SelectSeqNodes(task.fut)[n].state = PollSecond
    /\ pendings = 2
    /\ \E j \in DOMAIN log : log[j] = PollEv(2, Pending)
    /\ log[Len(log)] = PollEv(3, Pending)

\* ----------------------------------------------------------------- C30
\* C30: with handler futures that return Ready after finitely many polls
\* and an executor that polls a woken task again, every operation on a
\* compound handler that is in flight returns: its future is Ready in the
\* end, for every nesting of up to MaxHandlers handlers.
C30_SelectSeqTerminates ==
    (task # Idle) ~> (task = Idle /\ last.op = "compound")

\* C30 witness: authenticate over three handlers returned after the first
\* future failed and the second was polled in the same call, returning
\* Pending, and after the third was pending in a later call
C30_Witness ==
    /\ task = Idle
    /\ last.op = "compound"
    /\ last.inner = "authenticate"
    /\ \E j \in DOMAIN log :
          /\ j + 1 \in DOMAIN log
          /\ IsPoll(log[j]) /\ log[j][2] = 1 /\ log[j][3].ready
          /\ log[j + 1] = PollEv(2, Pending)
    /\ \E j \in DOMAIN log : log[j] = PollEv(3, Pending)
    /\ IsPoll(log[Len(log)]) /\ log[Len(log)][2] = 3 /\ log[Len(log)][3].ready

\* ----------------------------------------------------------------- C31
\* C31: while authorize is in flight and when it has returned, with Ok, a
\* challenge or a forbid response, the request's extensions are those it
\* had when authorize was called: the SuccessAuthenticationResult is still
\* there and its principal's claims are the same.
C31_AuthorizeKeepsExtensions ==
    /\ (task # Idle /\ task.op = "authorize") => ext = task.ext0
    /\ last.op = "authorize" => ext = last.ext0

\* C31 witness: a policy of two role requirements evaluated both on the
\* attached principal, returned the forbid response, and the result is
\* still attached
C31_Witness ==
    /\ last.op = "authorize"
    /\ last.ext0.some
    /\ Len(last.roles) = 2
    /\ Len(last.evals) = 3
    /\ last.out.t = "Err"
    /\ last.out.resp.op = "forbid"
    /\ ext = last.ext0

\* ----------------------------------------------------------------- C32
\* the request carries "Bearer " and a token that decodes
CarriesValidToken ==
    /\ request.authorization.some
    /\ request.authorization.v.to_str.some
    /\ request.authorization.v.to_str.v.prefix = "Bearer "
    /\ request.authorization.v.to_str.v.rest.valid

\* the "role" entry of the claims of the request's token
TokenRole == request.authorization.v.to_str.v.rest.claims.role

\* a JSON value no plain claim value stands for: null, and an integer
\* below i64::MIN or above i64::MAX
NotRepresentable(j) ==
    \/ j.j = "Null"
    \/ /\ j.j = "Number"
       /\ ~j.is_f64
       /\ \/ ~j.n.neg /\ ~MagLe(j.n, I64_MAX)
          \/ j.n.neg /\ ~MagLe(j.n, I64_MIN)

\* the plain value a representable JSON value is kept as
KeptAs(j) ==
    CASE j.j = "Bool" -> PlainBool(j.b)
      [] j.j = "String" -> PlainString(j.s)
      [] j.j = "Number" -> IF j.is_f64 THEN PlainFloat(j.n) ELSE PlainInt(j.n)
      [] OTHER -> PlainString(to_string(j))

\* the representable elements of an array, kept in order
RECURSIVE KeptElements(_)
KeptElements(arr) ==
    IF arr = <<>> THEN <<>>
    ELSE (IF NotRepresentable(Head(arr)) THEN <<>> ELSE <<KeptAs(Head(arr))>>)
             \o KeptElements(Tail(arr))

\* the plain values of a claim value
PlainValuesOf(c) == {ClaimValueIter(c)[k] : k \in 1..Len(ClaimValueIter(c))}

\* C32: after authenticate on a request with a bearer token that decodes,
\* the attached principal's "role" claim is the token's entry with only the
\* representable values kept: a null entry and null array elements are
\* dropped, an integer outside the i64 range is dropped (no Int claim holds a
\* wrapped value), a nested array or object is the String of its JSON text,
\* every other number is an Int within the i64 range or a Float, and an
\* array of which nothing is left is no claim.
C32_JsonClaimsRepresentable ==
    (last.op = "authenticate" /\ CarriesValidToken) =>
        /\ ext.some
        /\ LET claim == claim_role(ext.v.principal) IN
           /\ claim = (CASE ~TokenRole.some -> None
                         [] TokenRole.some /\ TokenRole.v.j = "Array" ->
                               IF KeptElements(TokenRole.v.arr) = <<>> THEN None
                               ELSE Some(Array(KeptElements(TokenRole.v.arr)))
                         [] OTHER ->
                               IF NotRepresentable(TokenRole.v) THEN None
                               ELSE Some(PlainValue(KeptAs(TokenRole.v))))
           /\ claim.some =>
                 \A pv \in PlainValuesOf(claim.v) :
                    /\ pv.tag \in {"String", "Int", "Float", "Bool"}
                    /\ pv.tag = "Int" =>
                          IF pv.i.neg THEN MagLe(pv.i, I64_MIN) ELSE MagLe(pv.i, I64_MAX)

\* C32 witness: the token's role is [u64::MAX, "test"]; authenticate has
\* attached a principal whose role claim is the array of the string alone
C32_Witness ==
    /\ last.op = "authenticate"
    /\ CarriesValidToken
    /\ TokenRole = Some(JsonArray(<<JsonNumber(U64_MAX, FALSE), JsonString("test")>>))
    /\ ext.some
    /\ claim_role(ext.v.principal) = Some(Array(<<PlainString("test")>>))

====
